---- MODULE Spec2Model ----
(***************************************************************************)
(* A model of the FTP server of isaacwein/ftpserver: the path guard and    *)
(* the local filesystem (filesystem/fs.go), the user registry              *)
(* (ftp/ftpusers/users.go) and the FTP control loop with its command       *)
(* handlers and data channel (ftp/handler.go, ftp/server.go).              *)
(*                                                                         *)
(* A path string is modelled as a record [abs, segs]: abs says that the    *)
(* string starts with a separator, segs are the pieces between the         *)
(* separators.  "" is [abs |-> FALSE, segs |-> <<>>], "." is               *)
(* [abs |-> FALSE, segs |-> <<".">>] and "/" is [abs |-> TRUE, segs |->    *)
(* <<>>].  A host path is the sequence of the segments of an absolute,     *)
(* cleaned path of the host.                                               *)
(***************************************************************************)
EXTENDS Integers, Sequences, FiniteSets, TLC

VARIABLES
    fsPc,        \* position of the filesystem caller: "idle" or "done"
    fsOp,        \* the filesystem operation that was called
    fsArg,       \* its (first) path argument
    fsArg2,      \* its second path argument (Rename, Link, Symlink)
    accessed,    \* host paths handed to the host by the last filesystem call
    fsErr,       \* the error the last filesystem call returned ("" for nil)
    files,       \* the regular files of the host (host paths)
    sessions,    \* the FTP sessions: connection state and the Session fields
    Type,        \* Server.Type, the transfer type of the server
    lsn,         \* the open passive listeners: port -> owning session, 0 when free
    cfg,         \* Server configuration: TLS, TLSe, the Users implementation
    users,       \* LocalUsers.users: username -> User
    serving,     \* the accept loop of Serve is running
    served,      \* the number of commands the clients have sent
    table,       \* SessionManager.sessions: the entries [id, session]
    life,        \* the server's context, its listener and the goroutine of Listen
    wg,          \* LocalUsers.wg and the goroutines that call the registry
    sftp         \* the SFTP server: its connections, channels and requests

fsVars == <<fsPc, fsOp, fsArg, fsArg2, accessed, fsErr>>
ftpVars == <<files, sessions, Type, lsn, cfg, users, wg, sftp, serving, served, table, life>>
vars == <<fsPc, fsOp, fsArg, fsArg2, accessed, fsErr,
          files, sessions, Type, lsn, cfg, users, wg, sftp, serving, served, table, life>>

(***************************************************************************)
(* Bounds                                                                  *)
(***************************************************************************)
\* longest client path, in segments
MaxPathLen == 3

(***************************************************************************)
(* Path strings                                                            *)
(***************************************************************************)
Segs == {"a", "d", ".", ".."}

SeqsUpTo(S, n) == UNION {[1..k -> S] : k \in 0..n}

Paths(n) == [abs : BOOLEAN, segs : SeqsUpTo(Segs, n)]

EmptyPath == [abs |-> FALSE, segs |-> <<>>]
DotPath == [abs |-> FALSE, segs |-> <<".">>]
DotDotPath == [abs |-> FALSE, segs |-> <<"..">>]
SlashPath == [abs |-> TRUE, segs |-> <<>>]
RelPath(segs) == [abs |-> FALSE, segs |-> segs]
AbsPath(segs) == [abs |-> TRUE, segs |-> segs]

\* One element of the lexical clean: "." is dropped, ".." removes the element
\* before it, stays when there is none and the path is relative, and is
\* dropped at the root of an absolute path.
CleanStep(abs, stack, seg) ==
    IF seg = "." THEN stack
    ELSE IF seg = ".."
         THEN IF Len(stack) > 0 /\ stack[Len(stack)] # ".."
              THEN SubSeq(stack, 1, Len(stack) - 1)
              ELSE IF abs THEN stack ELSE Append(stack, "..")
         ELSE Append(stack, seg)

RECURSIVE CleanSegs(_, _, _)
CleanSegs(abs, stack, segs) ==
    IF segs = <<>> THEN stack
    ELSE CleanSegs(abs, CleanStep(abs, stack, Head(segs)), Tail(segs))

\* filepath.Clean
Clean(p) ==
    LET s == CleanSegs(p.abs, <<>>, p.segs)
    IN  IF ~p.abs /\ s = <<>> THEN DotPath ELSE [abs |-> p.abs, segs |-> s]

\* filepath.Join of two elements: empty elements are ignored, the rest is
\* joined with a separator and cleaned; all empty gives "".
Join(p, q) ==
    IF p = EmptyPath /\ q = EmptyPath THEN EmptyPath
    ELSE IF p = EmptyPath THEN Clean(q)
    ELSE Clean([abs |-> p.abs, segs |-> p.segs \o q.segs])

RECURSIVE CommonPrefixLen(_, _)
CommonPrefixLen(s, t) ==
    IF s = <<>> \/ t = <<>> \/ Head(s) # Head(t) THEN 0
    ELSE 1 + CommonPrefixLen(Tail(s), Tail(t))

\* filepath.Rel of two absolute, cleaned paths (it cannot fail on those).
Rel(basepath, targpath) ==
    LET i == CommonPrefixLen(basepath.segs, targpath.segs)
        up == [k \in 1..(Len(basepath.segs) - i) |-> ".."]
        r == up \o SubSeq(targpath.segs, i + 1, Len(targpath.segs))
    IN  IF r = <<>> THEN DotPath ELSE RelPath(r)

\* strings.HasPrefix(p, "..")
HasPrefixDotDot(p) == ~p.abs /\ Len(p.segs) > 0 /\ p.segs[1] = ".."

\* fs.ValidPath: no element is "." or "..", no leading separator, not
\* empty; the one exception is the name "." itself.
ValidPath(p) ==
    \/ p = DotPath
    \/ /\ ~p.abs
       /\ p.segs # <<>>
       /\ \A i \in 1..Len(p.segs) : p.segs[i] \notin {".", ".."}

(***************************************************************************)
(* The local filesystem: the path guard                                    *)
(***************************************************************************)
\* LocalFS.virtualRoot, set by NewLocalFS
virtualRoot == SlashPath

\* LocalFS.localDir: the served directory of the host
localDir == <<"srv", "ftp">>

NoErr == ""
ErrAccessDenied == "access denied: path is outside the virtualRoot directory"

\* securePath, from the cleaned name, the name joined to the virtual root
\* and that relative to the virtual root: [path, err]
securePathRel(cleaned, joined, relPath) ==
    IF relPath = DotPath \/ relPath = virtualRoot
    THEN [path |-> cleaned, err |-> NoErr]
    ELSE IF ~HasPrefixDotDot(relPath) /\ ~relPath.abs
         THEN [path |-> joined, err |-> NoErr]
         ELSE [path |-> EmptyPath, err |-> ErrAccessDenied]

securePathCleaned(cleaned) ==
    securePathRel(cleaned, Join(virtualRoot, cleaned),
                  Rel(virtualRoot, Join(virtualRoot, cleaned)))

securePath(pathName) == securePathCleaned(Clean(pathName))

\* a cleanPath that drops the head of the name without looking for the
\* separator
cleanPathOfUntested(r) ==
    IF r.err # NoErr THEN [path |-> EmptyPath, err |-> r.err]
    ELSE IF r.path = EmptyPath \/ r.path = SlashPath
         THEN [path |-> DotPath, err |-> NoErr]
         ELSE IF r.path.abs
              THEN [path |-> RelPath(r.path.segs), err |-> NoErr]
              ELSE [path |-> RelPath(Tail(r.path.segs)), err |-> NoErr]

\* cleanPath after its call of securePath: "" and "/" become ".", a leading
\* separator is dropped.  [path, err]
cleanPathOf(r) ==
    IF r.err # NoErr THEN [path |-> EmptyPath, err |-> r.err]
    ELSE IF r.path = EmptyPath \/ r.path = SlashPath
         THEN [path |-> DotPath, err |-> NoErr]
         ELSE IF r.path.abs
              THEN [path |-> RelPath(r.path.segs), err |-> NoErr]
              ELSE [path |-> r.path, err |-> NoErr]

cleanPath(pathName) == cleanPathOf(securePath(pathName))

\* filepath.Join(FS.localDir, name): the host path of a guarded name
HostJoin(name) == Join(AbsPath(localDir), name).segs

\* os.DirFS(localDir): the host path opened for a valid name
DirFSHost(name) == IF name = DotPath THEN localDir ELSE localDir \o name.segs

\* the root directory or a descendant of it
InsideRoot(h) ==
    Len(h) >= Len(localDir) /\ SubSeq(h, 1, Len(localDir)) = localDir

(***************************************************************************)
(* The host file tree                                                      *)
(***************************************************************************)
\* directories of the host: the ancestors of the served directory, the
\* served directory and one directory "d" in it
HostDirs == {<<>>, <<"srv">>, localDir, localDir \o <<"d">>}

\* regular files that can exist in the served tree
FileHosts == {localDir \o <<"a">>, localDir \o <<"b">>, localDir \o <<"d", "a">>}

\* the files of the served tree when the server starts
InitFiles == {localDir \o <<"a">>}

IsDir(h) == h \in HostDirs
Exists(fset, h) == h \in fset \/ IsDir(h)
Children(fset, h) ==
    {x \in fset \cup HostDirs : Len(x) = Len(h) + 1 /\ SubSeq(x, 1, Len(h)) = h}

ErrInvalid == "invalid argument"
ErrNotExist == "file does not exist"
ErrNotDir == "not a directory"
ErrIsDir == "is a directory"
ErrHost == "host error"
ErrTime == "501 Invalid time format"
ErrPerm == "invalid permissions"
ErrType == "unsupported transfer type"
ErrIO == "io error"

\* A guarded name on its way to an os call: cleanPath, then
\* filepath.Join(FS.localDir, name).  [err, host]
GuardedOsOf(r) ==
    IF r.err # NoErr THEN [err |-> r.err, host |-> {}]
    ELSE [err |-> NoErr, host |-> {HostJoin(r.path)}]

GuardedOs(p) == GuardedOsOf(cleanPath(p))

\* A name on its way into the os.DirFS of the served directory: Open, Stat
\* and ReadDir refuse a name that is no fs.ValidPath.  [err, host]
DirFSOpen(name) ==
    IF ~ValidPath(name) THEN [err |-> ErrInvalid, host |-> {}]
    ELSE [err |-> NoErr, host |-> {DirFSHost(name)}]

\* A guarded name on its way into the DirFS: cleanPath, then the DirFS.
GuardedDirFSOf(r) ==
    IF r.err # NoErr THEN [err |-> r.err, host |-> {}]
    ELSE DirFSOpen(r.path)

GuardedDirFS(p) == GuardedDirFSOf(cleanPath(p))

TheHost(g) == CHOOSE h \in g.host : TRUE

ParentIsDir(h) == Len(h) > 0 /\ SubSeq(h, 1, Len(h) - 1) \in HostDirs

(***************************************************************************)
(* The local filesystem: the operations.  Each gives [err, host, files]:   *)
(* the error returned, the host paths handed to host calls and the files   *)
(* of the host afterwards.  XOn is operation X after its call of cleanPath *)
(* (g, n, t: the guarded names).                                           *)
(***************************************************************************)
FsResult(err, host, fset) == [err |-> err, host |-> host, files |-> fset, io |-> "none"]

\* the result of a call that copied bytes from or to the stream it was given
Moved(r) == [r EXCEPT !.io = "moved"]

\* the call panicked on its stream (a nil *tls.Conn)
Panicked(r) == [r EXCEPT !.io = "panic"]

CheckDirOn(fset, g) ==
    IF g.err # NoErr THEN FsResult(g.err, g.host, fset)
    ELSE IF ~Exists(fset, TheHost(g)) THEN FsResult(ErrNotExist, g.host, fset)
    ELSE IF ~IsDir(TheHost(g)) THEN FsResult(ErrNotDir, g.host, fset)
    ELSE FsResult(NoErr, g.host, fset)

CheckDir(fset, dirName) == CheckDirOn(fset, GuardedDirFS(dirName))

\* Dir reads the directory and then Stats every entry of it
DirOn(fset, c) ==
    IF c.err # NoErr THEN c
    ELSE FsResult(NoErr, c.host \cup Children(fset, TheHost(c)), fset)

Dir(fset, dirName) == DirOn(fset, CheckDir(fset, dirName))

MakeDirOn(fset, g) ==
    IF g.err # NoErr THEN FsResult(g.err, g.host, fset)
    ELSE IF TheHost(g) \in fset THEN FsResult(ErrNotDir, g.host, fset)
    ELSE FsResult(NoErr, g.host, fset)

MakeDir(fset, folderName) == MakeDirOn(fset, GuardedOs(folderName))

\* an operation that needs the named file or directory to exist
ExistingOn(fset, g) ==
    IF g.err # NoErr THEN FsResult(g.err, g.host, fset)
    ELSE IF ~Exists(fset, TheHost(g)) THEN FsResult(ErrNotExist, g.host, fset)
    ELSE FsResult(NoErr, g.host, fset)

File(fset, fileName) == ExistingOn(fset, GuardedOs(fileName))

\* the states of the stream a transfer reads from or writes to: "data"
\* works, "fail" fails at the first read or write, "nilptr" is a nil
\* *tls.Conn inside a non-nil net.Conn
Streams == {"data", "fail", "nilptr"}

ReadFileOn(fset, g, w) ==
    IF g.err # NoErr THEN FsResult(g.err, g.host, fset)
    ELSE IF ~Exists(fset, TheHost(g)) THEN FsResult(ErrNotExist, g.host, fset)
    ELSE IF IsDir(TheHost(g)) THEN FsResult(ErrIsDir, g.host, fset)
    ELSE IF w = "nilptr" THEN Panicked(FsResult(NoErr, g.host, fset))
    ELSE IF w = "fail" THEN FsResult(ErrIO, g.host, fset)
    ELSE Moved(FsResult(NoErr, g.host, fset))

\* ReadFile drops one leading separator and opens the name in the DirFS; it
\* does not call cleanPath.  Then it copies the file to w.
ReadFile(fset, name, w) ==
    ReadFileOn(fset, DirFSOpen(IF name.abs THEN RelPath(name.segs) ELSE name), w)

\* WriteFile opens (creates, truncates or appends) the file before it looks
\* at the transfer type.  In binary mode a read error of r is returned; in
\* ASCII mode the scanner stops at it and the error is dropped.
WriteFileOn(fset, g, r, transferType) ==
    IF g.err # NoErr THEN FsResult(g.err, g.host, fset)
    ELSE IF IsDir(TheHost(g)) THEN FsResult(ErrIsDir, g.host, fset)
    ELSE IF ~ParentIsDir(TheHost(g)) THEN FsResult(ErrNotExist, g.host, fset)
    ELSE IF transferType \notin {"A", "I"}
         THEN FsResult(ErrType, g.host, fset \cup g.host)
    ELSE IF r = "nilptr" THEN Panicked(FsResult(NoErr, g.host, fset \cup g.host))
    ELSE IF r = "fail"
         THEN FsResult(IF transferType = "I" THEN ErrIO ELSE NoErr, g.host,
                       fset \cup g.host)
    ELSE Moved(FsResult(NoErr, g.host, fset \cup g.host))

WriteFile(fset, fileName, r, transferType) ==
    WriteFileOn(fset, GuardedOs(fileName), r, transferType)

RemoveOn(fset, g) ==
    IF g.err # NoErr THEN FsResult(g.err, g.host, fset)
    ELSE IF TheHost(g) \in fset THEN FsResult(NoErr, g.host, fset \ g.host)
    ELSE IF IsDir(TheHost(g)) THEN FsResult(ErrHost, g.host, fset)
    ELSE FsResult(ErrNotExist, g.host, fset)

Remove(fset, fileName) == RemoveOn(fset, GuardedOs(fileName))

\* os.Rename of a regular file onto a free name or another regular file,
\* in an existing directory; the directories of the model are never moved.
RenameOn(fset, g, n) ==
    IF g.err # NoErr THEN FsResult(g.err, {}, fset)
    ELSE IF n.err # NoErr THEN FsResult(n.err, {}, fset)
    ELSE IF ~Exists(fset, TheHost(g)) THEN FsResult(ErrNotExist, g.host \cup n.host, fset)
    ELSE IF IsDir(TheHost(g)) THEN FsResult(ErrHost, g.host \cup n.host, fset)
    ELSE IF IsDir(TheHost(n)) THEN FsResult(ErrIsDir, g.host \cup n.host, fset)
    ELSE IF ~ParentIsDir(TheHost(n)) THEN FsResult(ErrNotExist, g.host \cup n.host, fset)
    ELSE FsResult(NoErr, g.host \cup n.host, (fset \ g.host) \cup n.host)

Rename(fset, fileName, newName) ==
    RenameOn(fset, GuardedOs(fileName), GuardedOs(newName))

\* ModifyTime: the guard, the time layout, then os.Stat and os.Chtimes
ModifyTimeOn(fset, g, timeOk) ==
    IF g.err # NoErr THEN FsResult(g.err, g.host, fset)
    ELSE IF ~timeOk THEN FsResult(ErrTime, {}, fset)
    ELSE ExistingOn(fset, g)

ModifyTime(fset, filePath, timeOk) == ModifyTimeOn(fset, GuardedOs(filePath), timeOk)

Stat(fset, fileName) == ExistingOn(fset, GuardedDirFS(fileName))

\* SetStat: the guard, then the zero mode is refused, then os.Chmod
SetStatOn(fset, g, permOk) ==
    IF g.err # NoErr THEN FsResult(g.err, g.host, fset)
    ELSE IF ~permOk THEN FsResult(ErrPerm, {}, fset)
    ELSE ExistingOn(fset, g)

SetStat(fset, fileName, permOk) == SetStatOn(fset, GuardedOs(fileName), permOk)

Lstat(fset, fileName) == ExistingOn(fset, GuardedOs(fileName))

\* Link and Symlink guard both names and hand both to the host
LinkOn(fset, g, t) ==
    IF g.err # NoErr THEN FsResult(g.err, {}, fset)
    ELSE IF t.err # NoErr THEN FsResult(t.err, {}, fset)
    ELSE IF Exists(fset, TheHost(g)) THEN FsResult(ErrHost, g.host \cup t.host, fset)
    ELSE FsResult(NoErr, g.host \cup t.host, fset)

Link(fset, fileName, target) == LinkOn(fset, GuardedOs(fileName), GuardedOs(target))

Symlink(fset, fileName, target) == LinkOn(fset, GuardedOs(fileName), GuardedOs(target))

FsOps == {"CheckDir", "Dir", "MakeDir", "File", "ReadFile", "WriteFile", "Remove",
          "Rename", "ModifyTime", "Stat", "Lstat", "SetStat", "Link", "Symlink"}

TransferTypes == {"", "A", "I"}

\* what an operation takes besides its path names: the stream of ReadFile,
\* the stream and the transfer type of WriteFile, whether the time of
\* ModifyTime parses, whether the mode of SetStat is not zero
FsExtras(op) ==
    CASE op = "ReadFile" -> [stream : Streams]
      [] op = "WriteFile" -> [stream : Streams, type : TransferTypes]
      [] op \in {"ModifyTime", "SetStat"} -> [ok : BOOLEAN]
      [] OTHER -> {[ok |-> TRUE]}

\* the call of one operation of the FS interface
FsCall(op, fset, p, q, x) ==
    CASE op = "CheckDir" -> CheckDir(fset, p)
      [] op = "Dir" -> Dir(fset, p)
      [] op = "MakeDir" -> MakeDir(fset, p)
      [] op = "File" -> File(fset, p)
      [] op = "ReadFile" -> ReadFile(fset, p, x.stream)
      [] op = "WriteFile" -> WriteFile(fset, p, x.stream, x.type)
      [] op = "Remove" -> Remove(fset, p)
      [] op = "Rename" -> Rename(fset, p, q)
      [] op = "ModifyTime" -> ModifyTime(fset, p, x.ok)
      [] op = "Stat" -> Stat(fset, p)
      [] op = "Lstat" -> Lstat(fset, p)
      [] op = "SetStat" -> SetStat(fset, p, x.ok)
      [] op = "Link" -> Link(fset, p, q)
      [] op = "Symlink" -> Symlink(fset, p, q)

(***************************************************************************)
(* The user registry (ftp/ftpusers)                                        *)
(***************************************************************************)
\* addresses of clients; a prefix is the set of the addresses it contains
IPs == {"10.0.0.1", "10.0.0.2"}

\* an address string: ip alone (port 0) or "ip:port"
AddrString(ip, port) == [ip |-> ip, port |-> port]

\* netip.ParseAddr: an address with a port does not parse
ParseAddr(str) ==
    IF str.port # 0 THEN [ok |-> FALSE, ip |-> ""] ELSE [ok |-> TRUE, ip |-> str.ip]

\* a string given to AddIP or RemoveIP: an address, alone (bits "") or
\* with "/" and the bits of a prefix
IPString(addr, bits) == [addr |-> addr, bits |-> bits]

\* the addresses a netip.Prefix of that many bits contains: all of the model
\* lie in one /24
PrefixOf(addr, bits) == IF bits = "24" THEN IPs ELSE {addr}

\* a map without keys
EmptyMap == [k \in {} |-> {}]

NoUser == [Username |-> "", Password |-> "", IPs |-> EmptyMap]

\* User.FindIP, after netip.ParseAddr
FindIPOn(user, addr) ==
    IF ~addr.ok THEN FALSE
    ELSE \E k \in DOMAIN user.IPs : addr.ip \in user.IPs[k]

FindIP(user, ip) == FindIPOn(user, ParseAddr(ip))

\* LocalUsers.Get: [user, err]
Get(reg, username) ==
    IF username \notin DOMAIN reg
    THEN [user |-> NoUser, err |-> "user not found"]
    ELSE [user |-> reg[username], err |-> NoErr]

\* LocalUsers.Find, after its call of Get: [user, err]
FindOn(g, password, ipaddr) ==
    IF g.err # NoErr THEN [user |-> "", err |-> g.err]
    ELSE IF g.user.Password # password
         THEN [user |-> "", err |-> "password is incorrect"]
    ELSE IF ~FindIP(g.user, ipaddr)
         THEN [user |-> "", err |-> "ip origin is not allowed"]
    ELSE [user |-> g.user.Username, err |-> NoErr]

Find(reg, username, password, ipaddr) == FindOn(Get(reg, username), password, ipaddr)

\* the registry the program is started with: one user, allowed from the
\* first address only
InitUsers ==
    [u \in {"u"} |-> [Username |-> "u", Password |-> "pw",
                      IPs |-> (IPString("10.0.0.1", "32") :> PrefixOf("10.0.0.1", "32"))]]

\* the strings callers give to AddIP and RemoveIP
IPArgs == {IPString("10.0.0.2", ""), IPString("10.0.0.2", "32"), IPString("bad", "")}

\* netip.ParseAddr and netip.ParsePrefix succeed on the string
ParsesIP(x) == x.addr \in IPs

\* User.AddIP: the string itself is the key, an address alone gets the
\* prefix of 32 bits; a string that does not parse changes nothing
AddIPKeyed(user, x, bits) ==
    [user EXCEPT !.IPs = (x :> PrefixOf(x.addr, bits)) @@ @]

AddIP(user, x) ==
    IF ~ParsesIP(x) THEN user
    ELSE AddIPKeyed(user, x, IF x.bits = "" THEN "32" ELSE x.bits)

\* delete(m, key)
Delete(m, key) == [k \in DOMAIN m \ {key} |-> m[k]]

\* User.RemoveIP: "/32" is appended to a string without "/"
RemoveIP(user, x) ==
    [user EXCEPT !.IPs = Delete(@, IF x.bits = "" THEN IPString(x.addr, "32") ELSE x)]

\* LocalUsers.Add: u.users[newUser.Username] = newUser
Add(m, user, pass) ==
    (user :> [Username |-> user, Password |-> pass, IPs |-> EmptyMap]) @@ m

\* LocalUsers.Remove
UsersRemove(m, user) == Delete(m, user)

(***************************************************************************)
(* Goroutines that call the registry.  A goroutine is in one call at a     *)
(* time; a call is cut where it takes or leaves the lock and where its     *)
(* access to a map begins and ends.                                        *)
(***************************************************************************)
Procs == {1, 2}

Names == {"u", "v"}

RegPasswords == {"pw", "new"}

\* the User objects that can be made: the one of InitUsers and those of Add
MaxObjects == 2

\* the maps of the registry: u.users, and the IPs of a User object
NoMap == [kind |-> "none", obj |-> 0]
UsersMap == [kind |-> "users", obj |-> 0]
IPsMap(o) == [kind |-> "IPs", obj |-> o]

NoIP == IPString("", "")

\* a goroutine outside every call
Idle == [op |-> "", name |-> "", ip |-> NoIP, pass |-> "", ref |-> 0,
         map |-> NoMap, mode |-> ""]

\* the lock is free, the user of InitUsers is object 1 and no goroutine
\* is in a call
RegStart ==
    [readers |-> {}, writer |-> 0, obj |-> [n \in DOMAIN InitUsers |-> 1], made |-> 1,
     g |-> [p \in Procs |-> Idle]]

notRegVars == <<fsVars, files, sessions, Type, lsn, cfg, sftp, serving, served, table, life>>

\* List: RLock, return u.users, RUnlock.  The caller has the map itself
ListCall(p) ==
    /\ wg.g[p].op = ""
    /\ wg.writer = 0
    /\ wg' = [wg EXCEPT !.g[p] = [Idle EXCEPT !.op = "List"]]
    /\ UNCHANGED <<users, notRegVars>>

\* the caller of List ranges over the map it got
RangeBegin(p) ==
    /\ wg.g[p].op = "List"
    /\ wg.g[p].map = NoMap
    /\ wg' = [wg EXCEPT !.g[p].map = UsersMap, !.g[p].mode = "r"]
    /\ UNCHANGED <<users, notRegVars>>

RangeEnd(p) ==
    /\ wg.g[p].op = "List"
    /\ wg.g[p].map = UsersMap
    /\ wg' = [wg EXCEPT !.g[p] = Idle]
    /\ UNCHANGED <<users, notRegVars>>

\* the calls that begin with Get: Get itself, Find, and AddIP and RemoveIP
\* on the User that Get gives
GetOps == {"Get", "Find", "AddIP", "RemoveIP"}

\* Get: RLock and the read of u.users[username]
GetBegin(p) ==
    /\ wg.g[p].op = ""
    /\ wg.writer = 0
    /\ \E op \in GetOps : \E name \in Names : \E x \in IPArgs :
          wg' = [wg EXCEPT !.readers = @ \cup {p},
                           !.g[p] = [Idle EXCEPT !.op = op, !.name = name,
                                                 !.ip = IF op \in {"AddIP", "RemoveIP"}
                                                        THEN x ELSE NoIP,
                                                 !.map = UsersMap, !.mode = "r"]]
    /\ UNCHANGED <<users, notRegVars>>

\* the User object Get returns, 0 with its error
Got(name) == IF name \in DOMAIN users THEN wg.obj[name] ELSE 0

\* the call goes on after Get: Find and RemoveIP with the User they got,
\* AddIP with it when its string parses
GoesOn(g) ==
    /\ Got(g.name) # 0
    /\ \/ g.op \in {"Find", "RemoveIP"}
       \/ g.op = "AddIP" /\ ParsesIP(g.ip)

\* Get: RUnlock and return
GetEnd(p) ==
    /\ wg.g[p].op \in GetOps
    /\ wg.g[p].map = UsersMap
    /\ wg' = [wg EXCEPT !.readers = @ \ {p},
                        !.g[p] = IF GoesOn(wg.g[p])
                                 THEN [wg.g[p] EXCEPT !.ref = Got(wg.g[p].name),
                                                      !.map = NoMap, !.mode = ""]
                                 ELSE Idle]
    /\ UNCHANGED <<users, notRegVars>>

\* FindIP ranges over u.IPs, AddIP and RemoveIP write it: none holds a lock
IPsBegin(p) ==
    /\ wg.g[p].ref # 0
    /\ wg.g[p].map = NoMap
    /\ wg' = [wg EXCEPT !.g[p].map = IPsMap(wg.g[p].ref),
                        !.g[p].mode = IF wg.g[p].op = "Find" THEN "r" ELSE "w"]
    /\ UNCHANGED <<users, notRegVars>>

\* the User of the call is still the one the registry has under its name
Current(g) == g.name \in DOMAIN users /\ wg.obj[g.name] = g.ref

\* the registry after the write of the call
IPsWritten(g) ==
    IF g.op = "AddIP" /\ Current(g) THEN [users EXCEPT ![g.name] = AddIP(@, g.ip)]
    ELSE IF g.op = "RemoveIP" /\ Current(g) THEN [users EXCEPT ![g.name] = RemoveIP(@, g.ip)]
    ELSE users

IPsEnd(p) ==
    /\ wg.g[p].ref # 0
    /\ wg.g[p].map # NoMap
    /\ users' = IPsWritten(wg.g[p])
    /\ wg' = [wg EXCEPT !.g[p] = Idle]
    /\ UNCHANGED notRegVars

\* Add and Remove: Lock and the write of u.users
WriteBegin(p) ==
    /\ wg.g[p].op = ""
    /\ wg.writer = 0
    /\ wg.readers = {}
    /\ \E op \in {"Add", "Remove"} : \E name \in Names : \E pass \in RegPasswords :
          /\ op = "Add" => wg.made < MaxObjects
          /\ wg' = [wg EXCEPT !.writer = p,
                              !.g[p] = [Idle EXCEPT !.op = op, !.name = name,
                                                    !.pass = IF op = "Add" THEN pass ELSE "",
                                                    !.map = UsersMap, !.mode = "w"]]
    /\ UNCHANGED <<users, notRegVars>>

\* Add and Remove: Unlock and return
WriteEnd(p) ==
    /\ wg.writer = p
    /\ IF wg.g[p].op = "Add"
       THEN /\ users' = Add(users, wg.g[p].name, wg.g[p].pass)
            /\ wg' = [wg EXCEPT !.writer = 0, !.g[p] = Idle, !.made = @ + 1,
                                !.obj = (wg.g[p].name :> (wg.made + 1)) @@ @]
       ELSE /\ users' = UsersRemove(users, wg.g[p].name)
            /\ wg' = [wg EXCEPT !.writer = 0, !.g[p] = Idle,
                                !.obj = Delete(@, wg.g[p].name)]
    /\ UNCHANGED notRegVars

(***************************************************************************)
(* The FTP server and its sessions (ftp/server.go, ftp/handler.go)         *)
(***************************************************************************)
\* the connections of the model: the slots of the session table
Sess == {1, 2}

\* the passive ports of the host
MaxPort == 2
Ports == 1..MaxPort

\* Server.Root: FsHandler.RootDir()
Root == virtualRoot

typeA == "A"
typeI == "I"

\* the argument of a command: a word, or a path name
NoArg == [w |-> "", p |-> EmptyPath]
Word(w) == [w |-> w, p |-> EmptyPath]
PathArg(p) == [w |-> "", p |-> p]

\* generateSessionID: the remote address of the connection and the time
\* of the clock, "%s-%d"
generateSessionID(peer, now) == [addr |-> peer, time |-> now]

\* Session as ftpHandler constructs it, on a connection from peer, with
\* the sessionID of ftpHandler.
\* callerTLS tells whether the connection in dataCaller came from tls.Dial,
\* dataTLS how the data connection of the command just served was
\* protected ("plain" or "tls", "" when it had none).
NewSession(peer, tls, now) ==
    [st |-> "open", peer |-> peer, sessionID |-> generateSessionID(peer, now), tls |-> tls,
     username |-> "", userInfo |-> "", isAuthenticated |-> FALSE,
     workingDir |-> Root, useTLSForDataConnection |-> FALSE,
     dataListener |-> 0, dataCaller |-> "nil", callerTLS |-> FALSE,
     renamingFile |-> EmptyPath, closedTwice |-> FALSE, lost |-> FALSE, dataTLS |-> "",
     cmd |-> "", arg |-> NoArg, ran |-> "", out |-> <<"220">>, end |-> ""]

NoSession == [NewSession(AddrString("", 0), FALSE, 0) EXCEPT !.st = "none", !.out = <<>>]

\* The state one command works on: the session, the server and host state
\* it can change, the record of its filesystem call, whether the handler
\* returned an error and whether it panicked.
Ctx(s) ==
    [s |-> [sessions[s] EXCEPT !.out = <<>>, !.dataTLS = ""], id |-> s, Type |-> Type, files |-> files, lsn |-> lsn,
     fsOp |-> "none", fsArg |-> EmptyPath, fsArg2 |-> EmptyPath,
     accessed |-> {}, fsErr |-> NoErr, io |-> "none",
     err |-> FALSE, panic |-> FALSE, dc |-> "none"]

\* fmt.Fprintf(s.readWriter, ...): one reply on the control connection
Reply(c, code) == [c EXCEPT !.s.out = Append(@, code)]

\* the handler returns a non-nil error
Fail(c) == [c EXCEPT !.err = TRUE]

\* a call of s.ftpServer.FsHandler
FsDoneOn(c, op, p, q, r) ==
    [c EXCEPT !.fsOp = op, !.fsArg = p, !.fsArg2 = q, !.accessed = r.host,
              !.fsErr = r.err, !.files = r.files, !.io = r.io]

CallFs(c, op, p, q, x) == FsDoneOn(c, op, p, q, FsCall(op, c.files, p, q, x))

Plain == [ok |-> TRUE]

\* Abs: the empty argument is ".", an argument that starts with the root is
\* taken as it is, any other is joined to the working directory
Abs(root, workingDir, arg) ==
    IF arg = EmptyPath THEN DotPath
    ELSE IF arg.abs THEN arg
    ELSE Join(workingDir, arg)

(***************************************************************************)
(* The handlers of the commands that need no login (handlerMap).  A        *)
(* handler takes the state c, the argument a and the inputs e of the       *)
(* environment, and gives the state after it.                              *)
(***************************************************************************)
\* AuthCommand after its 234: upgradeToTLS, whose handshake succeeds or not
AuthUpgrade(c, handshakeOk) ==
    IF handshakeOk THEN [c EXCEPT !.s.tls = TRUE] ELSE Reply(c, "500")

AuthCommand(c, a, e) ==
    IF a.w # "TLS" THEN Reply(c, "504")
    ELSE IF ~cfg.TLSe THEN Reply(c, "500")
    ELSE AuthUpgrade(Reply(c, "234"), e.ok)

\* a USER that ends the login of the session
UserCommandLogsOut(c, a, e) ==
    IF a.w = "" THEN Fail(Reply(c, "530"))
    ELSE Reply([c EXCEPT !.s.username = a.w, !.s.isAuthenticated = FALSE], "331")

UserCommand(c, a, e) ==
    IF a.w = "" THEN Fail(Reply(c, "530"))
    ELSE Reply([c EXCEPT !.s.username = a.w], "331")

\* Users.Find of the server's registry: the LocalUsers of this repository,
\* or another implementation of the interface whose answer is an input
UsersFind(username, password, ipaddr, e) ==
    IF cfg.users = "LocalUsers" THEN Find(users, username, password, ipaddr)
    ELSE IF e.ok THEN [user |-> username, err |-> NoErr]
    ELSE [user |-> "", err |-> "refused"]

\* a PassCommand that answers a failed Find and returns nil
PassFoundReturnsNil(c, r) ==
    IF r.err # NoErr
    THEN Reply([c EXCEPT !.s.userInfo = r.user], "530")
    ELSE Reply([c EXCEPT !.s.userInfo = r.user, !.s.isAuthenticated = TRUE], "230")

\* a PassCommand that keeps the name of the user a failed Find was asked for
PassFoundKeepsName(c, r) ==
    IF r.err # NoErr
    THEN Fail(Reply([c EXCEPT !.s.userInfo = c.s.username], "530"))
    ELSE Reply([c EXCEPT !.s.userInfo = r.user, !.s.isAuthenticated = TRUE], "230")

\* PassCommand after its call of Find
PassFound(c, r) ==
    IF r.err # NoErr
    THEN Fail(Reply([c EXCEPT !.s.userInfo = r.user], "530"))
    ELSE Reply([c EXCEPT !.s.userInfo = r.user, !.s.isAuthenticated = TRUE], "230")

PassCommand(c, a, e) == PassFound(c, UsersFind(c.s.username, a.w, c.s.peer, e))

SystemCommand(c, a, e) == Reply(c, "215")
FeaturesCommand(c, a, e) == Reply(c, "211")
OptsCommand(c, a, e) == IF a.w = "UTF8 ON" THEN Reply(c, "200") ELSE Reply(c, "500")
HelpCommand(c, a, e) == Reply(c, "214")
NoopCommand(c, a, e) == Reply(c, "200")
CloseCommand(c, a, e) == Reply(c, "221")

(***************************************************************************)
(* The handlers behind the login (handlerSecureMap): the simple ones       *)
(***************************************************************************)
PrintWorkingDirectoryCommand(c, a, e) == Reply(c, "257")

\* CWD and CDUP after their call of CheckDir
ChangeDirChecked(c, requestedDir) ==
    IF c.fsErr # NoErr THEN Reply(c, "550")
    ELSE Reply([c EXCEPT !.s.workingDir = requestedDir], "250")

ChangeDirTo(c, requestedDir) ==
    ChangeDirChecked(CallFs(c, "CheckDir", requestedDir, EmptyPath, Plain), requestedDir)

ChangeDirectoryCommand(c, a, e) == ChangeDirTo(c, Abs(Root, c.s.workingDir, a.p))

ChangeDirectoryToParentCommand(c, a, e) ==
    ChangeDirTo(c, Abs(Root, c.s.workingDir, DotDotPath))

\* a REST that forgets the file named by RNFR
RessetCommandForgets(c, a, e) == Reply([c EXCEPT !.s.renamingFile = EmptyPath], "350")

\* REST: "0" and every other argument are answered 350, nothing is stored
RessetCommand(c, a, e) == Reply(c, "350")

TypeCommand(c, a, e) ==
    IF a.w = "I" THEN Reply([c EXCEPT !.Type = typeI], "200")
    ELSE IF a.w = "A" THEN Reply([c EXCEPT !.Type = typeA], "200")
    ELSE Reply(c, "500")

ModeCommand(c, a, e) == IF a.w = "S" THEN Reply(c, "200") ELSE Reply(c, "504")
PbszCommand(c, a, e) == IF a.w = "0" THEN Reply(c, "200") ELSE Reply(c, "501")

PROTCommand(c, a, e) ==
    IF a.w = "C" THEN Reply([c EXCEPT !.s.useTLSForDataConnection = FALSE], "200")
    ELSE IF a.w = "P" THEN Reply([c EXCEPT !.s.useTLSForDataConnection = TRUE], "200")
    ELSE Reply(c, "504")

StruCommand(c, a, e) == IF a.w = "F" THEN Reply(c, "200") ELSE Reply(c, "504")

(***************************************************************************)
(* The data channel                                                        *)
(***************************************************************************)
\* the ports findAvailablePortInRange can listen on: those of start..end
\* that no other process (free) and no listener of this server holds
AvailablePorts(c, start, end, free) ==
    {port \in start..end : port \in free /\ c.lsn[port] = 0}

Min(S) == CHOOSE x \in S : \A y \in S : x <= y

\* the same with the last port of the range in place of the first
PasvEpsvOnLast(c, avail) ==
    IF avail = {} THEN Fail(Reply(c, "500"))
    ELSE [c EXCEPT !.lsn[CHOOSE x \in avail : \A y \in avail : y <= x] = c.id,
                   !.s.dataListener = CHOOSE x \in avail : \A y \in avail : y <= x]

\* PasvEpsvCommand after findAvailablePortInRange found the ports avail:
\* the first of them is listened on and stored, whatever was stored before
PasvEpsvOn(c, avail) ==
    IF avail = {} THEN Fail(Reply(c, "500"))
    ELSE [c EXCEPT !.lsn[Min(avail)] = c.id, !.s.dataListener = Min(avail)]

PasvEpsvCommand(c, e) ==
    PasvEpsvOn(c, AvailablePorts(c, cfg.PasvMinPort, cfg.PasvMaxPort, e.free))

\* PASV and EPSV after PasvEpsvCommand
PassiveReply(c, code) == IF c.err THEN [c EXCEPT !.err = FALSE] ELSE Reply(c, code)

PassiveModeCommand(c, a, e) == PassiveReply(PasvEpsvCommand(c, e), "227")

ExtendedPassiveModeCommand(c, a, e) == PassiveReply(PasvEpsvCommand(c, e), "229")

\* s.dataCaller = v: a connection that was stored and still open is
\* dropped without a Close
StoreCaller(c, v, tls) ==
    [c EXCEPT !.s.dataCaller = v, !.s.callerTLS = tls,
              !.s.lost = @ \/ c.s.dataCaller = "open"]

\* PortErptCommand: dialOk tells whether the dial of addr succeeds.  A
\* failed tls.Dial stores its nil *tls.Conn in the net.Conn field.
PortErptCommand(c, dialOk) ==
    IF c.s.useTLSForDataConnection
    THEN IF cfg.TLSe \/ cfg.TLS
         THEN IF dialOk THEN StoreCaller(c, "open", TRUE)
              ELSE Fail(Reply(StoreCaller(c, "nilptr", TRUE), "500"))
         ELSE c
    ELSE IF dialOk THEN StoreCaller(c, "open", FALSE)
         ELSE Fail(Reply(StoreCaller(c, "nil", FALSE), "500"))

\* PORT and EPRT after PortErptCommand
ActiveReply(c) == IF c.err THEN [c EXCEPT !.err = FALSE] ELSE Reply(c, "200")

\* PORT: an argument of six parts gives an address that can be dialled
ActiveModeCommand(c, a, e) ==
    IF a.w # "addr" THEN Reply(c, "501")
    ELSE ActiveReply(PortErptCommand(c, e.ok))

\* EPRT formats its port, a string, with %d: the address never dials
ExtendedActiveModeCommand(c, a, e) ==
    IF a.w # "addr" THEN Reply(c, "501")
    ELSE ActiveReply(PortErptCommand(c, FALSE))

\* the accepted connection is wrapped by tls.Server when PROT P is set and
\* the server has a TLS configuration
AcceptedTLS(c) ==
    IF c.s.useTLSForDataConnection /\ (cfg.TLSe \/ cfg.TLS) THEN "tls" ELSE "plain"

\* the stored connection is what its dial made it
CallerTLS(c) == IF c.s.callerTLS THEN "tls" ELSE "plain"

\* PassiveOrActiveModeConn: dc is the connection it returns, "none" with
\* its error
PassiveOrActiveModeConn(c, e) ==
    IF c.s.dataListener # 0
    THEN IF e.ok THEN [c EXCEPT !.dc = "accepted", !.s.dataTLS = AcceptedTLS(c)]
         ELSE [c EXCEPT !.dc = "none"]
    ELSE IF c.s.dataCaller # "nil"
         THEN [c EXCEPT !.dc = "caller", !.s.dataTLS = CallerTLS(c)]
         ELSE [c EXCEPT !.dc = "none"]

\* the stream the connection dc is for the transfer
StreamOf(c, e) ==
    IF c.dc = "accepted" THEN e.io
    ELSE IF c.s.dataCaller = "open" THEN e.io
    ELSE IF c.s.dataCaller = "closed" THEN "fail"
    ELSE "nilptr"

\* Close of the stored active connection
CallerClose(c) ==
    IF c.s.dataCaller = "open" THEN [c EXCEPT !.s.dataCaller = "closed"]
    ELSE IF c.s.dataCaller = "closed" THEN [c EXCEPT !.s.closedTwice = TRUE]
    ELSE [c EXCEPT !.panic = TRUE]

\* the deferred dataConn.Close() of a transfer
DataConnClose(c) == IF c.dc = "caller" THEN CallerClose(c) ELSE c

CloseDataConnection(c) ==
    IF c.s.dataListener # 0
    THEN [c EXCEPT !.lsn[c.s.dataListener] = 0, !.s.dataListener = 0]
    ELSE c

\* CloseDataCaller: Close, then nil; a panic of Close leaves the field
CloseDataCallerClosed(c) ==
    IF c.panic THEN c ELSE [c EXCEPT !.s.dataCaller = "nil", !.s.callerTLS = FALSE]

CloseDataCaller(c) ==
    IF c.s.dataCaller # "nil" THEN CloseDataCallerClosed(CallerClose(c)) ELSE c

AbortReply(c) == IF c.panic THEN c ELSE Reply(c, "226")

AbortCommand(c, a, e) == AbortReply(CloseDataCaller(CloseDataConnection(c)))

(***************************************************************************)
(* The transfers                                                           *)
(***************************************************************************)
\* the bytes of a transfer pass over the data connection
DataOut(c) == IF c.io = "moved" THEN [c EXCEPT !.s.out = Append(@, "data")] ELSE c

\* a transfer after its filesystem call
Transferred(c) ==
    IF c.io = "panic" THEN [c EXCEPT !.panic = TRUE]
    ELSE IF c.fsErr # NoErr THEN Reply(c, "550")
    ELSE Reply(DataOut(c), "226")

\* SaveCommand after PassiveOrActiveModeConn, up to its deferred Close.  The
\* handlers call the filesystem by the names Create and Read; the FS
\* interface has them as WriteFile and ReadFile.
SaveOpened(c, a, e) ==
    IF c.dc = "none" THEN Reply(c, "425")
    ELSE DataConnClose(Transferred(
             CallFs(c, "WriteFile", Abs(Root, c.s.workingDir, a.p), EmptyPath,
                    [stream |-> StreamOf(c, e), type |-> c.Type])))

SaveCommand(c, a, e) ==
    CloseDataConnection(SaveOpened(PassiveOrActiveModeConn(Reply(c, "150"), e), a, e))

RetrieveOpened(c, a, e) ==
    IF c.dc = "none" THEN Reply(c, "425")
    ELSE DataConnClose(Transferred(
             CallFs(c, "ReadFile", Abs(Root, c.s.workingDir, a.p), EmptyPath,
                    [stream |-> StreamOf(c, e)])))

RetrieveCommand(c, a, e) ==
    CloseDataConnection(RetrieveOpened(PassiveOrActiveModeConn(Reply(c, "150"), e), a, e))

\* MLSD after Dir: every entry is written to the data connection, a failed
\* write is not looked at
Listed(c, stream) ==
    IF c.fsErr # NoErr THEN Reply(c, "550")
    ELSE IF Cardinality(c.accessed) <= 1 THEN Reply(c, "226")
    ELSE IF stream = "nilptr" THEN [c EXCEPT !.panic = TRUE]
    ELSE IF stream = "fail" THEN Reply(c, "226")
    ELSE Reply([c EXCEPT !.s.out = Append(@, "data")], "226")

GetDirInfoOpened(c, a, e) ==
    IF c.dc = "none" THEN Reply(c, "425")
    ELSE DataConnClose(Listed(CallFs(c, "Dir", c.s.workingDir, EmptyPath, Plain),
                              StreamOf(c, e)))

GetDirInfoCommand(c, a, e) ==
    CloseDataConnection(GetDirInfoOpened(PassiveOrActiveModeConn(Reply(c, "150"), e), a, e))

(***************************************************************************)
(* Files: MDTM, MLST, STAT, SIZE, DELE, RNFR, RNTO                         *)
(***************************************************************************)
\* a handler after its filesystem call: bad on an error, good without
Answered(c, bad, good) == IF c.fsErr # NoErr THEN Reply(c, bad) ELSE Reply(c, good)

\* MDTM: the argument alone is a file name (a.w empty), or a time and a
\* file name; the names go to the filesystem as they are
ModifyTimeCommand(c, a, e) ==
    IF a.w = ""
    THEN Answered(CallFs(c, "Stat", a.p, EmptyPath, Plain), "501", "213")
    ELSE Answered(CallFs(c, "ModifyTime", a.p, EmptyPath, [ok |-> a.w = "time"]),
                  "501", "213")

GetFileInfoCommand(c, a, e) ==
    Answered(CallFs(c, "Stat", Abs(Root, c.s.workingDir, a.p), EmptyPath, Plain),
             "550", "250")

SizeCommand(c, a, e) ==
    Answered(CallFs(c, "Stat", Abs(Root, c.s.workingDir, a.p), EmptyPath, Plain),
             "550", "213")

RemoveCommand(c, a, e) ==
    Answered(CallFs(c, "Remove", Abs(Root, c.s.workingDir, a.p), EmptyPath, Plain),
             "550", "250")

\* RNFR after its call of Stat
RenameFromChecked(c, renamingFile) ==
    IF c.fsErr # NoErr THEN Reply(c, "550")
    ELSE Reply([c EXCEPT !.s.renamingFile = renamingFile], "350")

RenameFromTo(c, renamingFile) ==
    RenameFromChecked(CallFs(c, "Stat", renamingFile, EmptyPath, Plain), renamingFile)

RenameFromCommand(c, a, e) ==
    IF a.p = EmptyPath THEN Reply(c, "503")
    ELSE RenameFromTo(c, Abs(Root, c.s.workingDir, a.p))

RenameToCommand(c, a, e) ==
    IF a.p = EmptyPath THEN Reply(c, "503")
    ELSE Answered(CallFs(c, "Rename", c.s.renamingFile,
                         Abs(Root, c.s.workingDir, a.p), Plain),
                  "550", "250")

UnknownCommand(c, a, e) == Reply(c, "500")

UnAuthenticatedCommand(c, a, e) == Fail(Reply(c, "530"))

(***************************************************************************)
(* ftpHandler: the command loop of one session                             *)
(***************************************************************************)
handlerMap == {"AUTH", "USER", "PASS", "SYST", "FEAT", "OPTS", "HELP", "NOOP", "QUIT"}

handlerSecureMap ==
    {"PWD", "CWD", "CDUP", "REST", "TYPE", "MODE", "PBSZ", "PROT", "STRU", "PASV",
     "EPSV", "PORT", "EPRT", "ABOR", "MLSD", "MLST", "STAT", "SIZE", "STOR", "APPE",
     "MDTM", "RETR", "DELE", "RNFR", "RNTO"}

\* handlers[cmd](cmd, arg)
RunHandler(c, cmd, a, e) ==
    CASE cmd = "AUTH" -> AuthCommand(c, a, e)
      [] cmd = "USER" -> UserCommand(c, a, e)
      [] cmd = "PASS" -> PassCommand(c, a, e)
      [] cmd = "SYST" -> SystemCommand(c, a, e)
      [] cmd = "FEAT" -> FeaturesCommand(c, a, e)
      [] cmd = "OPTS" -> OptsCommand(c, a, e)
      [] cmd = "HELP" -> HelpCommand(c, a, e)
      [] cmd = "NOOP" -> NoopCommand(c, a, e)
      [] cmd = "QUIT" -> CloseCommand(c, a, e)

\* handlersSecure[cmd](cmd, arg)
RunSecureHandler(c, cmd, a, e) ==
    CASE cmd = "PWD" -> PrintWorkingDirectoryCommand(c, a, e)
      [] cmd = "CWD" -> ChangeDirectoryCommand(c, a, e)
      [] cmd = "CDUP" -> ChangeDirectoryToParentCommand(c, a, e)
      [] cmd = "REST" -> RessetCommand(c, a, e)
      [] cmd = "TYPE" -> TypeCommand(c, a, e)
      [] cmd = "MODE" -> ModeCommand(c, a, e)
      [] cmd = "PBSZ" -> PbszCommand(c, a, e)
      [] cmd = "PROT" -> PROTCommand(c, a, e)
      [] cmd = "STRU" -> StruCommand(c, a, e)
      [] cmd = "PASV" -> PassiveModeCommand(c, a, e)
      [] cmd = "EPSV" -> ExtendedPassiveModeCommand(c, a, e)
      [] cmd = "PORT" -> ActiveModeCommand(c, a, e)
      [] cmd = "EPRT" -> ExtendedActiveModeCommand(c, a, e)
      [] cmd = "ABOR" -> AbortCommand(c, a, e)
      [] cmd = "MLSD" -> GetDirInfoCommand(c, a, e)
      [] cmd \in {"MLST", "STAT"} -> GetFileInfoCommand(c, a, e)
      [] cmd = "SIZE" -> SizeCommand(c, a, e)
      [] cmd \in {"STOR", "APPE"} -> SaveCommand(c, a, e)
      [] cmd = "MDTM" -> ModifyTimeCommand(c, a, e)
      [] cmd = "RETR" -> RetrieveCommand(c, a, e)
      [] cmd = "DELE" -> RemoveCommand(c, a, e)
      [] cmd = "RNFR" -> RenameFromCommand(c, a, e)
      [] cmd = "RNTO" -> RenameToCommand(c, a, e)

\* which kind of handler served the command
Ran(c, kind) == [c EXCEPT !.s.ran = kind]

\* a turn of the loop that does not look at isAuthenticated
ftpHandlerCommandUnchecked(c, cmd, a, e) ==
    IF cmd \in handlerMap THEN Ran(RunHandler(c, cmd, a, e), "open")
    ELSE IF cmd \in handlerSecureMap
         THEN Ran(RunSecureHandler(c, cmd, a, e), "secure")
         ELSE Ran(UnknownCommand(c, a, e), "unknown")

\* one turn of the loop of ftpHandler on a parsed command
ftpHandlerCommand(c, cmd, a, e) ==
    IF cmd \in handlerMap THEN Ran(RunHandler(c, cmd, a, e), "open")
    ELSE IF cmd \in handlerSecureMap
         THEN IF ~c.s.isAuthenticated
              THEN Ran(UnAuthenticatedCommand(c, a, e), "unauthenticated")
              ELSE Ran(RunSecureHandler(c, cmd, a, e), "secure")
         ELSE Ran(UnknownCommand(c, a, e), "unknown")

\* how the loop goes on after the turn: a handler's error and a panic end
\* ftpHandler, whose deferred calls close the control connection and take
\* the session off the table
LoopEnd(c) == IF c.panic THEN "panic" ELSE IF c.err THEN "error" ELSE ""

SessionAfter(c, cmd, a) ==
    [c.s EXCEPT !.cmd = cmd, !.arg = a, !.end = LoopEnd(c),
                !.st = IF LoopEnd(c) = "" THEN "open" ELSE "closed"]

RecoversNothing(c) == FALSE

\* the deferred recover() of ftpHandler takes up the panic of a handler
Recovers(c) == c.panic

\* a panic that nothing recovers ends the process
Crashes(c) == c.panic /\ ~Recovers(c)

\* the sessions of a process that ended: every connection is gone
Crashed(ss) ==
    [t \in Sess |-> IF ss[t].st = "open"
                    THEN [ss[t] EXCEPT !.st = "closed", !.end = "crash"]
                    ELSE ss[t]]

SessionsAfter(ss, s, c, cmd, a) ==
    IF Crashes(c) THEN Crashed([ss EXCEPT ![s] = SessionAfter(c, cmd, a)])
    ELSE [ss EXCEPT ![s] = SessionAfter(c, cmd, a)]

\* SessionManager.Add and SessionManager.Remove
ManagerAdd(tbl, id, session) ==
    {x \in tbl : x.id # id} \cup {[id |-> id, session |-> session]}

ManagerRemove(tbl, id) == {x \in tbl : x.id # id}

TableAfterKept(tbl, c) == tbl

\* the deferred s.sessionManager.Remove(sessionID) of ftpHandler
TableAfter(tbl, c) ==
    IF LoopEnd(c) = "" \/ Crashes(c) THEN tbl
    ELSE ManagerRemove(tbl, c.s.sessionID)

\* the state after the turn
Commit(s, c, cmd, a) ==
    /\ sessions' = SessionsAfter(sessions, s, c, cmd, a)
    /\ table' = TableAfter(table, c)
    /\ serving' = (serving /\ ~Crashes(c))
    /\ Type' = c.Type
    /\ files' = c.files
    /\ lsn' = c.lsn
    /\ fsOp' = c.fsOp
    /\ fsArg' = c.fsArg
    /\ fsArg2' = c.fsArg2
    /\ accessed' = c.accessed
    /\ fsErr' = c.fsErr
    /\ UNCHANGED <<fsPc, cfg, users, wg, sftp, life>>

(***************************************************************************)
(* The server: configuration, accept loop, the commands of the clients     *)
(***************************************************************************)
\* the Server of NewServer: no TLS, the passive range 30100..30000 (the
\* minimum above the maximum), the registry handed in
NewServer(usersImpl) ==
    [TLS |-> FALSE, TLSe |-> FALSE, users |-> usersImpl,
     PasvMinPort |-> MaxPort, PasvMaxPort |-> 1]

\* the exported fields the embedding program sets before Listen
WithTLS(srv, tls, tlse) == [srv EXCEPT !.TLS = tls, !.TLSe = tlse]
WithPasvRange(srv, lo, hi) == [srv EXCEPT !.PasvMinPort = lo, !.PasvMaxPort = hi]

\* the ports clients connect from
ClientPorts == {50000}

\* the arguments clients send with a command
ArgPaths ==
    {EmptyPath, RelPath(<<"a">>), RelPath(<<"b">>), RelPath(<<"d">>), DotDotPath}

PathCommands == {"CWD", "MLST", "STAT", "SIZE", "STOR", "APPE", "RETR", "DELE", "RNFR", "RNTO"}

Args(cmd, P) ==
    CASE cmd = "AUTH" -> {Word("TLS"), Word("SSL")}
      [] cmd = "USER" -> {Word(""), Word("u"), Word("x")}
      [] cmd = "PASS" -> {Word("pw"), Word("bad")}
      [] cmd = "OPTS" -> {Word("UTF8 ON"), Word("")}
      [] cmd = "TYPE" -> {Word("I"), Word("A"), Word("E")}
      [] cmd = "MODE" -> {Word("S"), Word("B")}
      [] cmd = "REST" -> {Word("0"), Word("5")}
      [] cmd = "PBSZ" -> {Word("0"), Word("1")}
      [] cmd = "PROT" -> {Word("C"), Word("P"), Word("S")}
      [] cmd = "STRU" -> {Word("F"), Word("R")}
      [] cmd \in {"PORT", "EPRT"} -> {Word("addr"), Word("")}
      [] cmd = "MDTM" -> [w : {"", "time", "notime"}, p : P]
      [] cmd \in PathCommands -> {PathArg(p) : p \in P}
      [] OTHER -> {NoArg}

\* what the environment decides during a command: whether the one network
\* or registry call of the handler succeeds (handshake, Find, dial, accept),
\* how the data stream behaves, which ports other processes leave free
NoEnv == [ok |-> TRUE, io |-> "data", free |-> Ports]

Envs(cmd) ==
    CASE cmd \in {"AUTH", "PASS", "PORT"} -> [ok : BOOLEAN, io : {"data"}, free : {Ports}]
      [] cmd \in {"PASV", "EPSV"} -> [ok : {TRUE}, io : {"data"}, free : SUBSET Ports]
      [] cmd \in {"STOR", "APPE", "RETR", "MLSD"} ->
             [ok : BOOLEAN, io : {"data", "fail"}, free : {Ports}]
      [] OTHER -> {NoEnv}

\* the server after Listen: the context is live, the listener is open, the
\* goroutine of Listen waits for the end of the context
Listening == [ctx |-> "live", listener |-> "open", shutdown |-> "waiting"]

\* no goroutine calls the registry
RegIdle == [none |-> TRUE]

\* no SFTP server runs
SftpIdle == [none |-> TRUE]

(***************************************************************************)
(* The SFTP server (sftp/handler.go and the request handlers).  sftp has   *)
(* the process (alive), the SSH connections and what the files contain.    *)
(***************************************************************************)
SshConns == {1, 2}

ChannelTypes == {"session", "direct-tcpip"}

\* a channel request: its type and its payload, of which the model has the
\* number of bytes and the string after the first four
Payload(len, name) == [len |-> len, name |-> name]
NoRequest == [Type |-> "", Payload |-> Payload(0, "")]

RequestTypes == {"subsystem", "shell"}

Payloads == {Payload(0, ""), Payload(2, ""), Payload(8, "sftp"), Payload(9, "shell")}

\* fs.ErrExist
ErrExist == "file already exists"

\* an SSH connection: st is "none", "open" (sshHandler waits for a new
\* channel), "serving" (the request server of the accepted channel runs) or
\* "closed"; chan and did tell the last new channel and what was done with
\* it; filter tells whether filterHandler runs, with its last request and
\* reply; pc, from and to are the Rename in progress and err the error of
\* the last file command
NoConn ==
    [st |-> "none", chan |-> "", did |-> "", filter |-> FALSE,
     req |-> NoRequest, reply |-> "", pc |-> "idle", from |-> EmptyPath,
     to |-> EmptyPath, err |-> NoErr]

\* ssh.NewServerConn in sshHandler: a failed handshake returns
sshHandlerOpened(handshakeOk) ==
    [NoConn EXCEPT !.st = IF handshakeOk THEN "open" ELSE "closed"]

NewChannelAny(c, t, acceptOk) ==
    IF ~acceptOk THEN [c EXCEPT !.chan = t, !.did = "failed", !.st = "closed"]
    ELSE [c EXCEPT !.chan = t, !.did = "accepted", !.st = "serving", !.filter = TRUE,
                   !.req = NoRequest, !.reply = ""]

\* one turn of the loop over chans in sshHandler: Reject for a type other
\* than "session"; Accept, whose error returns; filterHandler is started
\* and the request server serves
NewChannel(c, t, acceptOk) ==
    IF t # "session" THEN [c EXCEPT !.chan = t, !.did = "rejected"]
    ELSE IF ~acceptOk THEN [c EXCEPT !.chan = t, !.did = "failed", !.st = "closed"]
    ELSE [c EXCEPT !.chan = t, !.did = "accepted", !.st = "serving", !.filter = TRUE,
                   !.req = NoRequest, !.reply = ""]

\* s.sftpServer.Serve() returns: the channel is over, and with it the
\* requests that filterHandler ranges over
ServeReturned(c) == [c EXCEPT !.st = "open", !.filter = FALSE]

\* req.Payload[4:] panics on a payload of less than four bytes
PayloadPanics(req) == req.Type = "subsystem" /\ req.Payload.len < 4

\* the ok of filterHandler for a request
FilterOk(req) == req.Type = "subsystem" /\ req.Payload.name = "sftp"

\* filterHandler for one request: req.Reply(ok, nil), whose error returns
filterHandler(c, req, replyOk) ==
    [c EXCEPT !.req = req, !.reply = IF FilterOk(req) THEN "true" ELSE "false",
              !.filter = replyOk]

\* a panic in a goroutine that has no recover ends the process
SftpCrashed(x, k, req) ==
    [x EXCEPT !.alive = FALSE,
              !.conn = [j \in SshConns |->
                          IF j = k THEN [x.conn[j] EXCEPT !.st = "closed", !.filter = FALSE,
                                                          !.req = req, !.reply = ""]
                          ELSE IF x.conn[j].st = "none" THEN x.conn[j]
                          ELSE [x.conn[j] EXCEPT !.st = "closed", !.filter = FALSE]]]

\* what the files of the served tree contain when the server starts: each
\* its own
InitContent(fset) == [h \in fset |-> h]

\* the Server while ListenAndServe runs: sftpServer is the request server
\* of the last accepted channel, nil before the first; listener is the
\* field s.listener, which nothing assigns (ListenAndServe keeps its
\* listener in a local variable); accepting tells whether that listener is
\* open; close is "" until Close is called, then how it ended
SftpStart(fset, conn) ==
    [alive |-> TRUE, conn |-> conn, content |-> InitContent(fset),
     sftpServer |-> IF \E k \in SshConns : conn[k].st = "serving" THEN "set" ELSE "nil",
     listener |-> "nil", accepting |-> TRUE, close |-> ""]

notSftpVars ==
    <<fsVars, sessions, Type, lsn, cfg, users, wg, serving, served, table, life>>

\* s.sftpServer = sftp.NewRequestServer(...) of a channel that was accepted
RequestServerOf(was, c) == IF c.st = "serving" THEN "set" ELSE was

\* the connections of s.sshServerConn: those whose sshHandler runs
Live(x) == {k \in SshConns : x.conn[k].st \in {"open", "serving"}}

\* Close up to s.listener.Close(): the request server is closed, every
\* connection of the map is closed and its context cancelled
CloseConns(x) ==
    [x EXCEPT !.conn = [k \in SshConns |->
                           IF k \in Live(x)
                           THEN [x.conn[k] EXCEPT !.st = "closed", !.filter = FALSE,
                                                  !.pc = "idle"]
                           ELSE x.conn[k]]]

\* Server.Close: s.sftpServer.Close() on the nil request server panics;
\* after the connections are closed, s.listener.Close() on the nil
\* listener panics; the panic ends the process
ServerClose(x) ==
    IF x.sftpServer = "nil" THEN [x EXCEPT !.alive = FALSE, !.close = "panic"]
    ELSE IF x.listener = "nil"
         THEN [CloseConns(x) EXCEPT !.alive = FALSE, !.close = "panic"]
         ELSE [CloseConns(x) EXCEPT !.accepting = FALSE, !.close = "returned"]

\* the embedding program calls Close
SftpClose ==
    /\ sftp.alive
    /\ sftp.close = ""
    /\ sftp' = ServerClose(sftp)
    /\ UNCHANGED <<files, notSftpVars>>

\* ListenAndServe accepts a connection and sshHandler begins
SshAccept(k) ==
    /\ sftp.alive
    /\ sftp.accepting
    /\ sftp.conn[k].st = "none"
    /\ \E handshakeOk \in BOOLEAN :
          sftp' = [sftp EXCEPT !.conn[k] = sshHandlerOpened(handshakeOk)]
    /\ UNCHANGED <<files, notSftpVars>>

\* the client opens a channel
SshNewChannel(k) ==
    /\ sftp.alive
    /\ sftp.conn[k].st = "open"
    /\ \E t \in ChannelTypes : \E acceptOk \in BOOLEAN :
          sftp' = [sftp EXCEPT !.conn[k] = NewChannel(@, t, acceptOk),
                               !.sftpServer = RequestServerOf(@, NewChannel(sftp.conn[k], t, acceptOk))]
    /\ UNCHANGED <<files, notSftpVars>>

\* the client closes the channel of its SFTP session; Serve returns when
\* the handlers of its requests have returned
SshServeReturns(k) ==
    /\ sftp.alive
    /\ sftp.conn[k].st = "serving"
    /\ sftp.conn[k].pc = "idle"
    /\ sftp' = [sftp EXCEPT !.conn[k] = ServeReturned(@)]
    /\ UNCHANGED <<files, notSftpVars>>

\* the client sends a request on the accepted channel
SshRequest(k) ==
    /\ sftp.alive
    /\ sftp.conn[k].filter
    /\ \E t \in RequestTypes : \E pl \in Payloads : \E replyOk \in BOOLEAN :
          sftp' = IF PayloadPanics([Type |-> t, Payload |-> pl])
                  THEN SftpCrashed(sftp, k, [Type |-> t, Payload |-> pl])
                  ELSE [sftp EXCEPT !.conn[k] =
                            filterHandler(@, [Type |-> t, Payload |-> pl], replyOk)]
    /\ UNCHANGED <<files, notSftpVars>>

\* the paths of the SFTP requests
SftpPaths == {AbsPath(<<"a">>), AbsPath(<<"b">>), AbsPath(<<"d", "a">>)}

\* PosixRename after its Stat of the target: the error "exists" when
\* the Stat succeeds, else on to the Rename
PosixRenameStat(c, from, to, r) ==
    IF r.err = NoErr THEN [c EXCEPT !.err = ErrExist]
    ELSE [c EXCEPT !.pc = "rename", !.from = from, !.to = to]

\* the contents after a Rename that the host has made
Renamed(content, r, g, n) ==
    IF r.err # NoErr THEN content
    ELSE [h \in r.files |-> IF h \in n THEN content[TheHost([host |-> g])]
                            ELSE content[h]]

\* Filecmd "Rename": PosixRename up to the return of its Stat
SftpRenameStat(k) ==
    /\ sftp.alive
    /\ sftp.conn[k].st = "serving"
    /\ sftp.conn[k].pc = "idle"
    /\ \E from \in SftpPaths : \E to \in SftpPaths \ {from} :
          sftp' = [sftp EXCEPT !.conn[k] = PosixRenameStat(@, from, to, Stat(files, to))]
    /\ UNCHANGED <<files, notSftpVars>>

\* the Rename of the filesystem that a PosixRename has come to
RenameOf(c) == Rename(files, c.from, c.to)

\* PosixRename: s.fs.Rename and return
SftpRename(k) ==
    /\ sftp.alive
    /\ sftp.conn[k].pc = "rename"
    /\ files' = RenameOf(sftp.conn[k]).files
    /\ sftp' = [sftp EXCEPT
                   !.conn[k] = [@ EXCEPT !.pc = "idle", !.err = RenameOf(sftp.conn[k]).err],
                   !.content = Renamed(@, RenameOf(sftp.conn[k]),
                                       GuardedOs(sftp.conn[k].from).host,
                                       GuardedOs(sftp.conn[k].to).host)]
    /\ UNCHANGED notSftpVars

\* the server after NewServer and Listen, with no client yet, on a served
\* tree that has the files fset
FtpStartOn(Cfgs, fset) ==
    /\ sessions = [s \in Sess |-> NoSession]
    /\ Type = ""
    /\ files = fset
    /\ lsn = [port \in Ports |-> 0]
    /\ cfg \in Cfgs
    /\ users = InitUsers
    /\ serving = TRUE
    /\ served = 0
    /\ table = {}
    /\ life = Listening
    /\ fsPc = "idle"
    /\ fsOp = "none"
    /\ fsArg = EmptyPath
    /\ fsArg2 = EmptyPath
    /\ accessed = {}
    /\ fsErr = NoErr

FtpStart(Cfgs) == FtpStartOn(Cfgs, InitFiles)

FtpInit(Cfgs) ==
    /\ FtpStart(Cfgs)
    /\ wg = RegIdle
    /\ sftp = SftpIdle

\* what time.Now().UnixNano() gives: two calls can give the same value
MaxTime == 2
Times == 1..MaxTime

\* the remote addresses a new connection can have: live connections to
\* the one listener differ in their remote address
FreePeers ==
    {AddrString(ip, port) : ip \in IPs, port \in ClientPorts}
        \ {sessions[t].peer : t \in {u \in Sess : sessions[u].st = "open"}}

\* one turn of the accept loop of Serve, with the start of ftpHandler on
\* the new connection (the session is made and put on the table, 220 is
\* written): with implicit TLS the handshake is made in the loop, and a
\* failed one returns from Serve
ServeAccept(s) ==
    /\ serving
    /\ life.listener = "open"
    /\ sessions[s].st = "none"
    /\ \E peer \in FreePeers : \E handshakeOk \in BOOLEAN : \E now \in Times :
          IF cfg.TLS /\ ~handshakeOk
          THEN serving' = FALSE /\ UNCHANGED <<sessions, table>>
          ELSE /\ sessions' = [sessions EXCEPT ![s] = NewSession(peer, cfg.TLS, now)]
               /\ table' = ManagerAdd(table, generateSessionID(peer, now), s)
               /\ UNCHANGED serving
    /\ UNCHANGED <<fsVars, files, Type, lsn, cfg, users, wg, sftp, served, life>>

\* ParseCommand fails (the client is gone): ftpHandler returns
ReadError(s) ==
    /\ sessions[s].st = "open"
    /\ sessions' = [sessions EXCEPT ![s] = [@ EXCEPT !.st = "closed", !.end = "read",
                                             !.cmd = "", !.arg = NoArg, !.ran = "",
                                             !.out = <<>>, !.dataTLS = ""]]
    /\ table' = ManagerRemove(table, sessions[s].sessionID)
    /\ UNCHANGED <<fsVars, files, Type, lsn, cfg, users, wg, sftp, serving, served, life>>

\* a client's command line is read and served
LoopTurn(s, Cmds, P) ==
    /\ sessions[s].st = "open"
    /\ \E cmd \in Cmds : \E a \in Args(cmd, P) : \E e \in Envs(cmd) :
          Commit(s, ftpHandlerCommand(Ctx(s), cmd, a, e), cmd, a)

Command(s, Cmds, P) == LoopTurn(s, Cmds, P) /\ UNCHANGED served

\* the same, of a client that sends no more than MaxCommands commands
MaxCommands == 4

(***************************************************************************)
(* The life of the server: Close, the goroutine of Listen, Wait            *)
(***************************************************************************)
\* Server.Close: s.cancel(err)
Close ==
    /\ life.ctx = "live"
    /\ life' = [life EXCEPT !.ctx = "cancelled"]
    /\ UNCHANGED <<fsVars, files, sessions, Type, lsn, cfg, users, wg, sftp, serving, served, table>>

\* the goroutine of Listen after <-s.ctx.Done(): it closes the listener and
\* goes on to send on Closer
ListenClose ==
    /\ life.ctx = "cancelled"
    /\ life.shutdown = "waiting"
    /\ life' = [life EXCEPT !.listener = "closed", !.shutdown = "sending"]
    /\ UNCHANGED <<fsVars, files, sessions, Type, lsn, cfg, users, wg, sftp, serving, served, table>>

\* Server.Wait: <-s.Closer.  The channel has no buffer: the send of the
\* goroutine of Listen ends when a Wait receives it
Wait ==
    /\ life.shutdown = "sending"
    /\ life' = [life EXCEPT !.shutdown = "done"]
    /\ UNCHANGED <<fsVars, files, sessions, Type, lsn, cfg, users, wg, sftp, serving, served, table>>

\* Accept fails on the closed listener and s.ctx.Err() is not nil: Serve
\* returns
ServeStop ==
    /\ serving
    /\ life.listener = "closed"
    /\ serving' = FALSE
    /\ UNCHANGED <<fsVars, files, sessions, Type, lsn, cfg, users, wg, sftp, served, table, life>>

Lifecycle == Close \/ ListenClose \/ Wait \/ ServeStop

CountedCommand(s, Cmds, P) ==
    /\ served < MaxCommands
    /\ LoopTurn(s, Cmds, P)
    /\ served' = served + 1

(***************************************************************************)
(* SpecFS: a caller of the filesystem (the FTP and SFTP front ends) calls  *)
(* one operation with client-supplied path strings.                        *)
(***************************************************************************)
TwoPathOps == {"Rename", "Link", "Symlink"}

\* the filesystem of a server that has just been constructed
FsInit == FtpInit({NewServer("LocalUsers")})

ftpVarsButFiles == <<sessions, Type, lsn, cfg, users, wg, sftp, serving, served, table, life>>

FsDone(op, p, q, r) ==
    /\ accessed' = r.host
    /\ fsErr' = r.err
    /\ files' = r.files
    /\ fsPc' = "done"
    /\ fsOp' = op
    /\ fsArg' = p
    /\ fsArg2' = q

FsCallOne ==
    /\ fsPc = "idle"
    /\ \E op \in FsOps \ TwoPathOps : \E p \in Paths(MaxPathLen) : \E x \in FsExtras(op) :
            FsDone(op, p, EmptyPath, FsCall(op, files, p, EmptyPath, x))
    /\ UNCHANGED ftpVarsButFiles

FsCallTwo ==
    /\ fsPc = "idle"
    /\ \E op \in TwoPathOps : \E p \in Paths(MaxPathLen) : \E q \in Paths(MaxPathLen - 1) :
            FsDone(op, p, q, FsCall(op, files, p, q, [ok |-> TRUE]))
    /\ UNCHANGED ftpVarsButFiles

FsNext == FsCallOne \/ FsCallTwo

SpecFS == FsInit /\ [][FsNext]_vars

\* C2: every host path a filesystem operation hands to the host is the
\* served directory or a descendant of it, whatever the client's path.
C2_AccessInsideRoot == \A h \in accessed : InsideRoot(h)

(***************************************************************************)
(* SpecGate: one client sends a few commands, any of the table and one     *)
(* that is in no table.  The registry is the LocalUsers of the repository  *)
(* or another implementation of Users.                                     *)
(***************************************************************************)
GateCfgs ==
    {WithPasvRange(NewServer(impl), 1, MaxPort) : impl \in {"LocalUsers", "Users"}}

GateCommands == handlerMap \cup handlerSecureMap \cup {"XYZ"}

GateNext ==
    ServeAccept(1) \/ ReadError(1) \/ CountedCommand(1, GateCommands, {RelPath(<<"a">>)})

SpecGate == FtpInit(GateCfgs) /\ [][GateNext]_vars

(***************************************************************************)
(* SpecLogin: one client logs in (or not) and sends the commands that need *)
(* no data connection, in any number.                                      *)
(***************************************************************************)
LoginCfgs == {NewServer(impl) : impl \in {"LocalUsers", "Users"}}

LoginCommands ==
    handlerMap \cup
    {"PWD", "CWD", "CDUP", "REST", "TYPE", "MODE", "PBSZ", "STRU", "MLST", "STAT",
     "SIZE", "MDTM", "DELE", "RNFR", "RNTO", "XYZ"}

LoginNext ==
    ServeAccept(1) \/ ReadError(1) \/ Command(1, LoginCommands, {EmptyPath, RelPath(<<"a">>)})

SpecLogin == FtpInit(LoginCfgs) /\ [][LoginNext]_vars

(***************************************************************************)
(* SpecPassive: one client, logged in by the registry, transfers over      *)
(* passive data connections.                                               *)
(***************************************************************************)
PassiveCfgs == {WithPasvRange(NewServer("Users"), 1, MaxPort)}

PassiveCommands ==
    {"USER", "PASS", "TYPE", "PASV", "EPSV", "ABOR", "STOR", "APPE", "RETR", "MLSD"}

PassiveNext ==
    ServeAccept(1) \/ ReadError(1) \/ Command(1, PassiveCommands, {RelPath(<<"a">>)})

SpecPassive == FtpInit(PassiveCfgs) /\ [][PassiveNext]_vars

(***************************************************************************)
(* SpecPorts: one client opens passive listeners on servers whose passive  *)
(* range is all ports, the upper ports only, or the one of NewServer.      *)
(***************************************************************************)
PortsCfgs ==
    {WithPasvRange(NewServer("Users"), 1, MaxPort),
     WithPasvRange(NewServer("Users"), 2, MaxPort),
     NewServer("Users")}

PortsCommands == {"USER", "PASS", "PASV", "EPSV"}

PortsNext ==
    ServeAccept(1) \/ ReadError(1) \/ Command(1, PortsCommands, {EmptyPath})

SpecPorts == FtpInit(PortsCfgs) /\ [][PortsNext]_vars

(***************************************************************************)
(* SpecRest: one client sets a restart offset between the commands that    *)
(* set up and run a transfer or a rename.                                  *)
(***************************************************************************)
RestCfgs == {WithPasvRange(NewServer("Users"), 1, MaxPort)}

RestCommands == {"PASS", "TYPE", "REST", "PASV", "RNFR", "RETR", "STOR"}

RestNext ==
    ServeAccept(1) \/ ReadError(1) \/ Command(1, RestCommands, {RelPath(<<"a">>)})

SpecRest == FtpInit(RestCfgs) /\ [][RestNext]_vars

(***************************************************************************)
(* SpecActive: one client, logged in by the registry, transfers over       *)
(* active data connections, in the clear or protected.                     *)
(***************************************************************************)
ActiveCfgs == {WithTLS(NewServer("Users"), FALSE, tlse) : tlse \in BOOLEAN}

ActiveCommands ==
    {"USER", "PASS", "TYPE", "PROT", "PORT", "EPRT", "ABOR", "STOR", "APPE", "RETR",
     "MLSD"}

ActiveNext ==
    ServeAccept(1) \/ ReadError(1) \/ Command(1, ActiveCommands, {RelPath(<<"a">>)})

SpecActive == FtpInit(ActiveCfgs) /\ [][ActiveNext]_vars

(***************************************************************************)
(* SpecRename: one client renames and removes files.                       *)
(***************************************************************************)
RenameCfgs == {NewServer("Users")}

RenameCommands == {"USER", "PASS", "NOOP", "DELE", "RNFR", "RNTO"}

RenameNext ==
    ServeAccept(1) \/ ReadError(1) \/ Command(1, RenameCommands, ArgPaths)

SpecRename == FtpInit(RenameCfgs) /\ [][RenameNext]_vars

(***************************************************************************)
(* SpecDir: one client, logged in by the registry, walks the directories.  *)
(***************************************************************************)
DirCfgs == {NewServer("Users")}

DirCommands == {"USER", "PASS", "PWD", "CWD", "CDUP"}

\* the directories the client asks for, "../.." among them
DirPaths ==
    {EmptyPath, RelPath(<<"d">>), RelPath(<<"a">>), DotDotPath,
     RelPath(<<"..", "..">>), RelPath(<<"d", "..", "..">>), AbsPath(<<"d">>)}

DirNext ==
    ServeAccept(1) \/ ReadError(1) \/ Command(1, DirCommands, DirPaths)

SpecDir == FtpInit(DirCfgs) /\ [][DirNext]_vars

(***************************************************************************)
(* SpecPanic: explicit TLS is configured; the first client dials active    *)
(* data connections and retrieves, the second one sends NOOP.              *)
(***************************************************************************)
PanicCfgs == {WithTLS(NewServer("Users"), FALSE, TRUE)}

PanicCommands == {"PASS", "PROT", "PORT", "RETR", "ABOR"}
BystanderCommands == {"PASS", "NOOP"}

PanicNext ==
    \/ \E s \in Sess : ServeAccept(s) \/ ReadError(s)
    \/ Command(1, PanicCommands, {RelPath(<<"a">>)})
    \/ Command(2, BystanderCommands, {RelPath(<<"a">>)})

SpecPanic == FtpInit(PanicCfgs) /\ [][PanicNext]_vars

(***************************************************************************)
(* SpecTLS: one client of a server with or without explicit TLS upgrades   *)
(* its control connection and logs in.                                     *)
(***************************************************************************)
TLSCfgs == {WithTLS(NewServer("Users"), FALSE, tlse) : tlse \in BOOLEAN}

TLSCommands == {"AUTH", "USER", "PASS", "NOOP", "PBSZ", "PROT", "PWD"}

TLSNext ==
    ServeAccept(1) \/ ReadError(1) \/ Command(1, TLSCommands, {EmptyPath})

SpecTLS == FtpInit(TLSCfgs) /\ [][TLSNext]_vars

(***************************************************************************)
(* SpecTable: two clients of a server with explicit TLS come and go by     *)
(* every way a session can end, while the server is closed or not.         *)
(***************************************************************************)
TableCfgs == {WithTLS(NewServer("Users"), FALSE, TRUE)}

\* the first client logs in and transfers over active connections, the
\* second one does not log in
TableCommands == {"PASS", "PROT", "PORT", "RETR"}
LeaverCommands == {"QUIT", "PWD"}

TableNext ==
    \/ \E s \in Sess : ServeAccept(s) \/ ReadError(s)
    \/ Command(1, TableCommands, {RelPath(<<"a">>)})
    \/ Command(2, LeaverCommands, {RelPath(<<"a">>)})
    \/ Lifecycle

SpecTable == FtpInit(TableCfgs) /\ [][TableNext]_vars

(***************************************************************************)
(* SpecShutdown: two clients log in and send NOOP while the server is      *)
(* closed.  The steps of the server's own goroutines are taken when they   *)
(* can be (the Go scheduler runs every goroutine that is not blocked);     *)
(* nothing makes a client send, close its connection, or anyone call Wait. *)
(***************************************************************************)
ShutdownCfgs == {NewServer("Users")}

ShutdownCommands == {"PASS", "NOOP"}

ShutdownNext ==
    \/ \E s \in Sess : ServeAccept(s) \/ ReadError(s)
                        \/ Command(s, ShutdownCommands, {EmptyPath})
    \/ Lifecycle

SpecShutdown ==
    /\ FtpInit(ShutdownCfgs)
    /\ [][ShutdownNext]_vars
    /\ WF_vars(ListenClose)
    /\ WF_vars(ServeStop)

(***************************************************************************)
(* SpecImplicit: two clients of a server with implicit TLS.                *)
(***************************************************************************)
ImplicitCfgs == {WithTLS(NewServer("Users"), TRUE, FALSE)}

ImplicitNext ==
    \/ \E s \in Sess : ServeAccept(s) \/ ReadError(s)
                        \/ Command(s, ShutdownCommands, {EmptyPath})
    \/ Lifecycle

SpecImplicit == FtpInit(ImplicitCfgs) /\ [][ImplicitNext]_vars

(***************************************************************************)
(* SpecUsers: two goroutines call the registry in any interleaving.        *)
(***************************************************************************)
UsersInit ==
    /\ FtpStart({NewServer("LocalUsers")})
    /\ wg = RegStart
    /\ sftp = SftpIdle

UsersNext ==
    \E p \in Procs :
        \/ ListCall(p) \/ RangeBegin(p) \/ RangeEnd(p)
        \/ GetBegin(p) \/ GetEnd(p)
        \/ IPsBegin(p) \/ IPsEnd(p)
        \/ WriteBegin(p) \/ WriteEnd(p)

SpecUsers == UsersInit /\ [][UsersNext]_vars

(***************************************************************************)
(* SpecKeys: the embedding program generates RSA and ECDSA host keys of    *)
(* any size.                                                               *)
(***************************************************************************)
\* largest size asked for, in bits
MaxBits == 4160

\* the sizes asked for: the multiples of 64, the sizes of the curves, and
\* sizes next to supported ones
KeySizes ==
    {n \in 0..MaxBits : n % 64 = 0} \cup {-1, 224, 521, 2047, 2049}

\* a PEM block of a key
Pem(type, bits) == [Type |-> type, bits |-> bits]
NoKey == Pem("", 0)

Keys(privateKeyFile, publicKeyFile, err) ==
    [privateKeyFile |-> privateKeyFile, publicKeyFile |-> publicKeyFile, err |-> err]

\* GeneratesRSAKeys without its safeguard: what rsa.GenerateKey makes
GeneratesRSAKeysUnguarded(bitSize) ==
    IF bitSize < 2 THEN Keys(NoKey, NoKey, "error generating RSA private key")
    ELSE Keys(Pem("RSA PRIVATE KEY", bitSize), Pem("RSA PUBLIC KEY", bitSize), NoErr)

validBitSizes == {2048, 3072, 4096}

\* GeneratesRSAKeys: rsa.GenerateKey and the marshalling of the public key
\* do not fail on a valid size
GeneratesRSAKeys(bitSize) ==
    IF bitSize \notin validBitSizes THEN Keys(NoKey, NoKey, "invalid bit size")
    ELSE Keys(Pem("RSA PRIVATE KEY", bitSize), Pem("RSA PUBLIC KEY", bitSize), NoErr)

\* GeneratesECDSAKeys: the switch over the curves P224, P256, P384, P521
GeneratesECDSAKeys(bitSize) ==
    IF bitSize \notin {224, 256, 384, 521} THEN Keys(NoKey, NoKey, "unsupported bitsize")
    ELSE Keys(Pem("EC PRIVATE KEY", bitSize), Pem("PUBLIC KEY", bitSize), NoErr)

\* a call and what it returned
KeyCall(bitSize, keys) == [bitSize |-> bitSize, keys |-> keys]

KeysInit ==
    /\ FtpStart({NewServer("LocalUsers")})
    /\ wg = RegIdle
    /\ sftp = [rsa |-> KeyCall(0, GeneratesRSAKeys(0)),
               ecdsa |-> KeyCall(0, GeneratesECDSAKeys(0))]

CallRSA ==
    /\ \E bitSize \in KeySizes :
          sftp' = [sftp EXCEPT !.rsa = KeyCall(bitSize, GeneratesRSAKeys(bitSize))]
    /\ UNCHANGED <<files, notSftpVars>>

CallECDSA ==
    /\ \E bitSize \in KeySizes :
          sftp' = [sftp EXCEPT !.ecdsa = KeyCall(bitSize, GeneratesECDSAKeys(bitSize))]
    /\ UNCHANGED <<files, notSftpVars>>

KeysNext == CallRSA \/ CallECDSA

SpecKeys == KeysInit /\ [][KeysNext]_vars

(***************************************************************************)
(* SpecSsh: two SSH connections open channels and send channel requests.   *)
(***************************************************************************)
SshInit ==
    /\ FtpStart({NewServer("LocalUsers")})
    /\ wg = RegIdle
    /\ sftp = SftpStart(files, [k \in SshConns |-> NoConn])

SshNext ==
    \/ \E k \in SshConns :
          SshAccept(k) \/ SshNewChannel(k) \/ SshServeReturns(k) \/ SshRequest(k)
    \/ SftpClose

SpecSsh == SshInit /\ [][SshNext]_vars

(***************************************************************************)
(* SpecSftp: two SFTP sessions rename the files of a tree that has the     *)
(* files a and d/a.                                                        *)
(***************************************************************************)
\* a connection whose request server serves
ServingConn == NewChannel(sshHandlerOpened(TRUE), "session", TRUE)

SftpFiles == {localDir \o <<"a">>, localDir \o <<"d", "a">>}

SftpInit ==
    /\ FtpStartOn({NewServer("LocalUsers")}, SftpFiles)
    /\ wg = RegIdle
    /\ sftp = SftpStart(SftpFiles, [k \in SshConns |-> ServingConn])

SftpNext ==
    \E k \in SshConns : SftpRenameStat(k) \/ SftpRename(k) \/ SshServeReturns(k)

SpecSftp == SftpInit /\ [][SftpNext]_vars

(***************************************************************************)
(* SpecType: two clients set the transfer type and store files.            *)
(***************************************************************************)
TypeCfgs == {WithPasvRange(NewServer("Users"), 1, MaxPort)}

\* the first client sets transfer types, the second one also stores files
TypeCommands == {"PASS", "TYPE"}
StoreCommands == TypeCommands \cup {"PASV", "STOR"}

TypeNext ==
    \/ \E s \in Sess : ServeAccept(s) \/ ReadError(s)
    \/ Command(1, TypeCommands, {RelPath(<<"a">>)})
    \/ Command(2, StoreCommands, {RelPath(<<"a">>)})

SpecType == FtpInit(TypeCfgs) /\ [][TypeNext]_vars

(***************************************************************************)
(* Properties of the control loop and the login                            *)
(***************************************************************************)
\* session s has just served a command
Served(s) == sessions[s].st # "none" /\ sessions'[s] # sessions[s] /\ sessions'[s].cmd # ""

\* C1: the handler of a command of handlerSecureMap never runs in a session
\* whose isAuthenticated is false when the command arrives.
C1_SecureNeedsLogin ==
    [][\A s \in Sess : (Served(s) /\ sessions'[s].ran = "secure")
                          => sessions[s].isAuthenticated]_vars

\* a command of handlerSecureMap arrived in a session that is not logged
\* in: it was refused and the session ended
C1_Witness ==
    \E s \in Sess : /\ sessions[s].cmd \in handlerSecureMap
                    /\ sessions[s].ran = "unauthenticated"
                    /\ ~sessions[s].isAuthenticated
                    /\ sessions[s].out = <<"530">>

\* the user is registered, the password is the stored one and the address
\* lies in one of the user's prefixes
Allowed(reg, username, password, ip) ==
    /\ username \in DOMAIN reg
    /\ reg[username].Password = password
    /\ \E k \in DOMAIN reg[username].IPs : ip \in reg[username].IPs[k]

\* C3: with the registry of the repository, PASS is answered 230 exactly
\* when the user of the preceding USER is registered, the password is the
\* stored one and the peer's address lies in one of the user's prefixes.
C3_LoginIffAllowed ==
    \A s \in Sess :
        (cfg.users = "LocalUsers" /\ sessions[s].cmd = "PASS")
            => (sessions[s].out = <<"230">>
                  <=> Allowed(users, sessions[s].username, sessions[s].arg.w,
                              sessions[s].peer.ip))

\* session s has just served PASS
PassServed(s) == Served(s) /\ sessions[s].st = "open" /\ sessions'[s].cmd = "PASS"

\* the two ways PASS ends
PassSucceeded(s) ==
    /\ sessions'[s].out = <<"230">>
    /\ sessions'[s].isAuthenticated
    /\ sessions'[s].userInfo = sessions[s].username
    /\ sessions'[s].st = "open"

PassFailed(s) ==
    /\ sessions'[s].out = <<"530">>
    /\ sessions'[s].isAuthenticated = sessions[s].isAuthenticated
    /\ sessions'[s].st = "closed"

\* C4: PASS either logs the user in (user set, isAuthenticated true, 230,
\* the session goes on) or answers 530, leaves isAuthenticated as it was and
\* ends the session; with the registry of the repository the first happens
\* exactly when Find succeeds; an ended session serves no further command.
C4_PassOutcome ==
    [][\A s \in Sess :
          /\ PassServed(s) => (PassSucceeded(s) \/ PassFailed(s))
          /\ (PassServed(s) /\ cfg.users = "LocalUsers")
                => (PassSucceeded(s)
                      <=> Find(users, sessions[s].username, sessions'[s].arg.w,
                               sessions[s].peer).err = NoErr)
          /\ sessions[s].st = "closed" => sessions'[s] = sessions[s]]_vars

\* a PASS was refused in a session that was not logged in: 530, the session
\* is over and still not logged in
C4_Witness ==
    \E s \in Sess : /\ sessions[s].cmd = "PASS"
                    /\ sessions[s].out = <<"530">>
                    /\ sessions[s].st = "closed"
                    /\ sessions[s].end = "error"
                    /\ ~sessions[s].isAuthenticated

(***************************************************************************)
(* Properties of the data channel and the transfers                        *)
(***************************************************************************)
TransferCommands == {"STOR", "APPE", "RETR", "MLSD"}

\* the handler of a transfer command ran in session s and returned
TransferEnded(s) ==
    /\ sessions[s].cmd \in TransferCommands
    /\ sessions[s].ran = "secure"
    /\ sessions[s].end = ""

\* C5: after a transfer command, however it ended, the session holds no
\* passive listener and no active data connection.
C5_DataChannelIdle ==
    \A s \in Sess :
        TransferEnded(s) => (sessions[s].dataListener = 0 /\ sessions[s].dataCaller = "nil")

\* the listeners session s opened that are still open
OpenListeners(s) == {port \in Ports : lsn[port] = s}

\* C6: every listener and data connection of a session is closed once: an
\* open listener is the one the session holds, no connection was dropped
\* open or closed a second time, and nothing is open after the session.
C6_ClosedExactlyOnce ==
    \A s \in Sess :
        /\ OpenListeners(s) \subseteq {sessions[s].dataListener}
        /\ ~sessions[s].lost
        /\ ~sessions[s].closedTwice
        /\ sessions[s].st = "closed"
              => (OpenListeners(s) = {} /\ sessions[s].dataCaller # "open")

\* the events of a transfer in the order of the claim: 150, the data, one
\* final reply
OrderedTransfers ==
    {<<"150", "data", "226">>, <<"150", "226">>, <<"150", "550">>, <<"150", "data", "550">>}

\* C7: a transfer command that gets its data connection writes 150, then
\* moves the data, then writes exactly one final reply, 226 or 550.
C7_TransferOrder ==
    \A s \in Sess :
        (/\ sessions[s].cmd \in TransferCommands
         /\ sessions[s].ran = "secure"
         /\ sessions[s].out # <<"150", "425">>)
            => sessions[s].out \in OrderedTransfers

\* the transfer type under which a STOR or APPE of session s writes: the
\* one SaveCommand hands to the filesystem
TransferTypeOf(s) == Ctx(s).Type

\* C8: a TYPE served in one session leaves the transfer type of every other
\* open session as it was.
C8_TypePerSession ==
    [][\A sa \in Sess : \A sb \in Sess \ {sa} :
          (Served(sa) /\ sessions'[sa].cmd = "TYPE" /\ sessions[sb].st = "open")
              => TransferTypeOf(sb)' = TransferTypeOf(sb)]_vars

(***************************************************************************)
(* Properties of RNFR and RNTO                                             *)
(***************************************************************************)
\* C9: RNTO calls Rename of the filesystem only in a session whose
\* renamingFile is set.
C9_RenameNeedsFrom ==
    \A s \in Sess :
        (sessions[s].cmd = "RNTO" /\ fsOp = "Rename")
            => sessions[s].renamingFile # EmptyPath

\* C10: an RNTO renames a file only when the command served just before it
\* in the session was a successful RNFR.
C10_RenameFromOneShot ==
    [][\A s \in Sess :
          (Served(s) /\ sessions'[s].cmd = "RNTO" /\ sessions'[s].out = <<"250">>)
              => (sessions[s].cmd = "RNFR" /\ sessions[s].out = <<"350">>)]_vars

(***************************************************************************)
(* Properties of the directory commands                                    *)
(***************************************************************************)
\* the ".." elements of arg, taken from the working directory, lead above
\* the root
Climbs(workingDir, arg) ==
    /\ arg # EmptyPath
    /\ ~arg.abs
    /\ HasPrefixDotDot(Clean(RelPath(workingDir.segs \o arg.segs)))

\* C11: a CWD whose argument climbs above the root is answered 550 with the
\* error "access denied: path is outside the root directory" of the
\* filesystem, and the working directory stays as it was.
C11_ClimbRejected ==
    [][\A s \in Sess :
          (/\ Served(s)
           /\ sessions'[s].cmd = "CWD"
           /\ sessions'[s].ran = "secure"
           /\ Climbs(sessions[s].workingDir, sessions'[s].arg.p))
              => (/\ sessions'[s].out = <<"550">>
                  /\ fsErr' = ErrAccessDenied
                  /\ sessions'[s].workingDir = sessions[s].workingDir)]_vars

(***************************************************************************)
(* Properties of the end of a session                                      *)
(***************************************************************************)
\* the session manager holds an entry of session s
OnTable(s) == \E x \in table : x.session = s

\* C12: a session whose last command is QUIT was answered 221 and has
\* ended: its connection is closed (so no later command is served) and its
\* entry is off the session table.
C12_QuitEnds ==
    \A s \in Sess :
        sessions[s].cmd = "QUIT"
            => (/\ sessions[s].out = <<"221">>
                /\ sessions[s].st = "closed"
                /\ ~OnTable(s))

\* C13: a session that was refused a command of handlerSecureMap because it
\* is not logged in was answered 530 and is still open.
C13_RefusedStaysOpen ==
    \A s \in Sess :
        sessions[s].ran = "unauthenticated"
            => (sessions[s].out = <<"530">> /\ sessions[s].st = "open")

(***************************************************************************)
(* Properties of failures                                                  *)
(***************************************************************************)
DataCommands == {"PASV", "EPSV", "STOR", "APPE", "RETR", "MLSD"}

\* the replies of a failure of the data channel: no port to listen on, no
\* data connection, a failed file operation
DataFailures == {"500", "425", "550"}

\* C14: a PASV, EPSV, STOR, APPE, RETR or MLSD that is answered 500, 425 or
\* 550 leaves the session open, logged in and in its working directory.
C14_DataFailureKeepsSession ==
    [][\A s \in Sess :
          (/\ Served(s)
           /\ sessions'[s].cmd \in DataCommands
           /\ sessions'[s].ran = "secure"
           /\ \E i \in DOMAIN sessions'[s].out : sessions'[s].out[i] \in DataFailures)
              => (/\ sessions'[s].st = "open"
                  /\ sessions'[s].isAuthenticated
                  /\ sessions'[s].workingDir = sessions[s].workingDir)]_vars

\* C15: when the handler of a command of session s panics, s is closed and
\* its entry leaves the session table, the accept loop goes on as before and
\* every other session and its entry stay as they were.
C15_PanicTrapped ==
    [][\A s \in Sess :
          (Served(s) /\ sessions'[s].end = "panic")
              => (/\ sessions'[s].st = "closed"
                  /\ table' = ManagerRemove(table, sessions[s].sessionID)
                  /\ serving' = serving
                  /\ \A t \in Sess \ {s} : sessions'[t] = sessions[t])]_vars

\* a handler of one session has panicked while another session is open:
\* the first is closed and off the table, the other is open and on it
C15_Witness ==
    \E s \in Sess : \E t \in Sess \ {s} :
        /\ sessions[s].end = "panic" /\ sessions[s].st = "closed" /\ ~OnTable(s)
        /\ sessions[t].st = "open" /\ OnTable(t)
        /\ serving

(***************************************************************************)
(* Properties of TLS                                                       *)
(***************************************************************************)
\* C16: a session whose AUTH was answered 234 has its control connection in
\* TLS, with nothing written after the 234, or it has ended.
C16_TLSAfter234 ==
    \A s \in Sess :
        (sessions[s].cmd = "AUTH" /\ sessions[s].out # <<>> /\ sessions[s].out[1] = "234")
            => \/ sessions[s].tls /\ sessions[s].out = <<"234">>
               \/ sessions[s].st = "closed"

\* C17: a transfer that moved file or listing bytes did so on a data
\* connection in TLS exactly when PROT P was in effect.
C17_DataTLSIffProtP ==
    \A s \in Sess :
        (/\ sessions[s].cmd \in TransferCommands
         /\ \E i \in DOMAIN sessions[s].out : sessions[s].out[i] = "data")
            => (sessions[s].dataTLS = "tls" <=> sessions[s].useTLSForDataConnection)

(***************************************************************************)
(* Properties of the session table and of the life of the server           *)
(***************************************************************************)
\* the loop of ftpHandler is running for session s
Running(s) == sessions[s].st = "open"

\* the entry ftpHandler makes for session s
EntryOf(s) == [id |-> sessions[s].sessionID, session |-> s]

C19_ShutdownCompletes ==
    (life.ctx = "cancelled")
        ~> (/\ life.listener = "closed"
            /\ ~serving
            /\ \A s \in Sess : ~Running(s)
            /\ life.shutdown = "done")

\* C20: the accept loop of Serve stops only when the server is closed.
C20_AcceptorGoesOn ==
    [][(serving /\ life.ctx = "live") => serving']_vars

(***************************************************************************)
(* Properties of the user registry                                         *)
(***************************************************************************)
\* goroutines p and q are in the same map and one of them writes it
Conflict(p, q) ==
    /\ wg.g[p].map # NoMap
    /\ wg.g[p].map = wg.g[q].map
    /\ "w" \in {wg.g[p].mode, wg.g[q].mode}

\* C21: no map of the registry is read or ranged over by one goroutine
\* while another goroutine writes it.
C21_WriterExclusive ==
    \A p \in Procs : \A q \in Procs \ {p} : ~Conflict(p, q)

\* C28: in every state of the registry, Add of a name followed by Remove
\* of that name gives the registry as it was.
C28_AddRemoveRestores ==
    \A name \in Names : \A pass \in RegPasswords :
        UsersRemove(Add(users, name, pass), name) = users

(***************************************************************************)
(* Properties of the SFTP server                                           *)
(***************************************************************************)
\* the host paths of the source and of the target of the Rename of
\* connection k
SourceOf(k) == TheHost(GuardedOs(sftp.conn[k].from))
TargetOf(k) == TheHost(GuardedOs(sftp.conn[k].to))

\* connection k makes the Rename of its PosixRename
Renames(k) == sftp.conn[k].pc = "rename" /\ sftp'.conn[k].pc = "idle"

\* C22: the Rename of an existing file that comes to the host while its
\* target exists fails with the error "exists" and leaves the target with
\* the content it had.
C22_RenameKeepsTarget ==
    [][\A k \in SshConns :
          (Renames(k) /\ SourceOf(k) \in files /\ TargetOf(k) \in files)
              => (/\ sftp'.conn[k].err = ErrExist
                  /\ TargetOf(k) \in files'
                  /\ sftp'.content[TargetOf(k)] = sftp.content[TargetOf(k)])]_vars

\* connection k has handled a new channel
Handled(k) ==
    /\ sftp.conn[k].st = "open"
    /\ sftp'.alive
    /\ sftp'.conn[k] # sftp.conn[k]

\* C23: a new channel of a type other than "session" is rejected, no
\* request server and no filterHandler is started for it and the connection
\* waits for the next channel; a request server starts only on a channel of
\* type "session".
C23_OnlySessionChannels ==
    [][\A k \in SshConns :
          Handled(k)
              => /\ sftp'.conn[k].chan # "session"
                    => /\ sftp'.conn[k].did = "rejected"
                       /\ sftp'.conn[k].st = "open"
                       /\ ~sftp'.conn[k].filter
                 /\ sftp'.conn[k].st = "serving" => sftp'.conn[k].chan = "session"]_vars

\* a channel of another type has been rejected and the connection waits
\* for the next channel, while the other connection serves a session
C23_Witness ==
    \E k \in SshConns : \E j \in SshConns \ {k} :
        /\ sftp.conn[k].chan = "direct-tcpip" /\ sftp.conn[k].did = "rejected"
        /\ sftp.conn[k].st = "open"
        /\ sftp.conn[j].chan = "session" /\ sftp.conn[j].st = "serving"

\* filterHandler of connection k has taken a request
Requested(k) ==
    /\ sftp.alive
    /\ sftp.conn[k].filter
    /\ sftp'.conn[k].req # NoRequest
    /\ sftp' # sftp

\* C24: every request on an accepted channel is answered, "true" when it
\* is a subsystem request whose payload names sftp and "false" otherwise,
\* and the process goes on.
C24_EveryRequestAnswered ==
    [][\A k \in SshConns :
          Requested(k)
              => /\ sftp'.alive
                 /\ sftp'.conn[k].reply =
                        IF sftp'.conn[k].req.Type = "subsystem"
                           /\ sftp'.conn[k].req.Payload = Payload(8, "sftp")
                        THEN "true" ELSE "false"]_vars

\* the ports a listener can be opened on when the other processes leave free
Bindable(free) == {p \in Ports : p \in free /\ lsn[p] = 0}

\* those of the passive range
BindableInRange(free) ==
    {p \in Bindable(free) : cfg.PasvMinPort <= p /\ p <= cfg.PasvMaxPort}

\* PasvEpsvCommand of session s when the other processes leave free
PasvOf(s, free) == PasvEpsvCommand(Ctx(s), [NoEnv EXCEPT !.free = free])

Stored(s) ==
    /\ sessions[s].cmd \in {"STOR", "APPE"}
    /\ sessions[s].ran = "secure"
    /\ Len(sessions[s].out) >= 2
    /\ sessions[s].out[1] = "150"
    /\ sessions[s].out[2] # "425"

\* C26: while no session has set a transfer type, a STOR or APPE that gets
\* its data connection is accepted as an ASCII transfer: WriteFile does not
\* refuse the type and the command ends with 226.
C26_UnsetTypeIsAscii ==
    \A s \in Sess :
        (Stored(s) /\ Type = "")
            => (/\ fsErr # ErrType
                /\ sessions[s].out[Len(sessions[s].out)] = "226")

\* C27: a session whose userInfo is set is authenticated.
C27_UserImpliesAuthenticated ==
    \A s \in Sess : sessions[s].userInfo # "" => sessions[s].isAuthenticated

\* a PASS has set the user of a session
C27_Witness ==
    \E s \in Sess :
        /\ sessions[s].cmd = "PASS"
        /\ sessions[s].userInfo # ""
        /\ sessions[s].userInfo = sessions[s].username
        /\ sessions[s].isAuthenticated

\* a second pass of a guard over the name its first pass gave for x
Idempotent(first, second) == first.err = NoErr => second = first

\* C29: the path guard gives the same name again, without an error, when
\* it is given a name it returned: for securePath and for cleanPath, on the
\* names handed to the operations of the filesystem.
C29_GuardIdempotent ==
    fsPc = "done"
        => \A x \in {fsArg, fsArg2} :
              /\ Idempotent(securePath(x), securePath(securePath(x).path))
              /\ Idempotent(cleanPath(x), cleanPath(cleanPath(x).path))

\* an operation was called with an absolute name that climbs and that the
\* guard rewrites
C29_Witness ==
    /\ fsPc = "done"
    /\ fsArg.abs
    /\ \E i \in DOMAIN fsArg.segs : fsArg.segs[i] = ".."
    /\ cleanPath(fsArg).err = NoErr
    /\ cleanPath(fsArg).path \notin {fsArg, DotPath}
    /\ cleanPath(cleanPath(fsArg).path) = cleanPath(fsArg)

\* the fields of the Session of the program in the record x
SessionFields(x) ==
    [x EXCEPT !.cmd = "", !.arg = NoArg, !.ran = "", !.out = <<>>, !.dataTLS = ""]

\* the name arg read from the directory workingDir
ResolvedFrom(workingDir, arg) ==
    IF arg = EmptyPath THEN workingDir
    ELSE IF arg.abs THEN Clean(arg)
    ELSE Join(workingDir, arg)

\* the argument CWD and CDUP work on
DirArg(x) == IF x.cmd = "CDUP" THEN DotDotPath ELSE x.arg.p

\* the host directory the name p stands for
DirOf(p) == GuardedOs(p).host

\* C30: a CWD or CDUP answered 550 leaves every field of the session as it
\* was; one answered 250 changes the working directory only, to the
\* directory its argument (".." for CDUP) names when read from the former
\* working directory; there is no other answer.
C30_CwdOnlyOnSuccess ==
    [][\A s \in Sess :
          (/\ Served(s)
           /\ sessions'[s].cmd \in {"CWD", "CDUP"}
           /\ sessions'[s].ran = "secure")
              => \/ /\ sessions'[s].out = <<"550">>
                    /\ SessionFields(sessions'[s]) = SessionFields(sessions[s])
                 \/ /\ sessions'[s].out = <<"250">>
                    /\ SessionFields([sessions'[s] EXCEPT
                                         !.workingDir = sessions[s].workingDir])
                           = SessionFields(sessions[s])
                    /\ DirOf(sessions'[s].workingDir)
                           = DirOf(ResolvedFrom(sessions[s].workingDir,
                                                DirArg(sessions'[s])))]_vars

\* a canonical virtual path: absolute, no "." and no ".." element
Canonical(p) ==
    /\ p.abs
    /\ \A i \in DOMAIN p.segs : p.segs[i] \notin {".", ".."}

\* C31: the working directory of every session is a canonical virtual
\* path rooted at "/", never a relative name such as ".".
C31_CwdCanonical ==
    \A s \in Sess : sessions[s].st = "open" => Canonical(sessions[s].workingDir)

\* what a transfer command works on besides the session
ServerState == <<Type, files, lsn>>

\* the turn of command cmd in session s, as the session and the server
\* state it leaves
TurnOf(c, cmd, a, e) ==
    <<SessionFields(SessionAfter(ftpHandlerCommand(c, cmd, a, e), cmd, a)),
      ftpHandlerCommand(c, cmd, a, e).s.out,
      ftpHandlerCommand(c, cmd, a, e).files>>

\* C32: REST is answered 350 and leaves the session (working directory,
\* login, data channel, renamingFile) and the transfer type as they were,
\* so that the STOR or RETR that follows runs as it would have without it.
C32_RestChangesNothing ==
    [][\A s \in Sess :
          (Served(s) /\ sessions'[s].cmd = "REST" /\ sessions'[s].ran = "secure")
              => /\ sessions'[s].out = <<"350">>
                 /\ SessionFields(sessions'[s]) = SessionFields(sessions[s])
                 /\ ServerState' = ServerState
                 /\ \A cmd \in {"STOR", "RETR"} : \A e \in Envs(cmd) :
                       TurnOf(Ctx(s)', cmd, PathArg(RelPath(<<"a">>)), e)
                           = TurnOf(Ctx(s), cmd, PathArg(RelPath(<<"a">>)), e)]_vars

\* REST with an offset was answered in a session that holds a passive
\* listener and the name of a file to rename
C32_Witness ==
    \E s \in Sess :
        /\ sessions[s].cmd = "REST" /\ sessions[s].arg = Word("5")
        /\ sessions[s].out = <<"350">>
        /\ sessions[s].dataListener # 0
        /\ sessions[s].renamingFile # EmptyPath
        /\ Type # ""

\* C33: STAT without an argument is answered with the status of the
\* server (211); STAT with an argument is answered with the status of
\* that file (213), or 550 when the file cannot be examined.
C33_StatDispatch ==
    [][\A s \in Sess :
          (Served(s) /\ sessions'[s].cmd = "STAT" /\ sessions'[s].ran = "secure")
              => /\ sessions'[s].out # <<>>
                 /\ sessions'[s].out[1] \in
                        IF sessions'[s].arg.p = EmptyPath THEN {"211"}
                        ELSE {"213", "550"}]_vars

\* C34: in every logged-in session and for every endpoint, reachable or
\* not, EPRT with a well-formed argument does what PORT does: the same
\* reply, the same stored connection.
C34_EprtAsPort ==
    \A s \in Sess :
        (sessions[s].st = "open" /\ sessions[s].isAuthenticated)
            => \A e \in Envs("PORT") :
                  /\ ExtendedActiveModeCommand(Ctx(s), Word("addr"), e).s.out
                        = ActiveModeCommand(Ctx(s), Word("addr"), e).s.out
                  /\ ExtendedActiveModeCommand(Ctx(s), Word("addr"), e).s.dataCaller
                        = ActiveModeCommand(Ctx(s), Word("addr"), e).s.dataCaller

\* C35: on a server as NewServer makes it, the passive range is in its
\* natural order, and a PASV or EPSV finds a port whenever a port is free.
C35_DefaultRangeUsable ==
    \A s \in Sess :
        (/\ cfg = NewServer(cfg.users)
         /\ sessions[s].st = "open"
         /\ sessions[s].cmd \in {"PASV", "EPSV"}
         /\ sessions[s].ran = "secure")
            => /\ cfg.PasvMinPort <= cfg.PasvMaxPort
               /\ \A free \in SUBSET Ports :
                     Bindable(free) # {} => ~PasvOf(s, free).err

\* C36: a Close of the SFTP server, with any number of live connections,
\* returns normally, leaves the listener closed and every connection
\* closed.
C36_CloseCompletes ==
    sftp.close # ""
        => /\ sftp.close = "returned"
           /\ sftp.alive
           /\ ~sftp.accepting
           /\ Live(sftp) = {}

\* C37: a session that is authenticated stays so, whatever it sends, until
\* it ends; a USER it sends with a name is answered 331 and changes the
\* username only.
C37_AuthMonotonic ==
    [][\A s \in Sess :
          (sessions[s].st = "open" /\ sessions[s].isAuthenticated)
              => /\ sessions'[s].isAuthenticated
                 /\ (Served(s) /\ sessions'[s].cmd = "USER" /\ sessions'[s].arg.w # "")
                       => /\ sessions'[s].out = <<"331">>
                          /\ sessions'[s].st = "open"
                          /\ sessions'[s].username = sessions'[s].arg.w
                          /\ SessionFields([sessions'[s] EXCEPT
                                               !.username = sessions[s].username])
                                = SessionFields(sessions[s])]_vars

\* a logged-in session has sent USER with another name and then run a
\* command that needs the login
C37_Witness ==
    \E s \in Sess :
        /\ sessions[s].isAuthenticated
        /\ sessions[s].userInfo # ""
        /\ sessions[s].username \notin {"", sessions[s].userInfo}
        /\ sessions[s].cmd = "PWD"
        /\ sessions[s].ran = "secure"
        /\ sessions[s].out = <<"257">>

\* C38: a PORT or EPRT is answered 200 only when a connection to the
\* client was made and is stored as the data connection of the session.
C38_OkMeansConnected ==
    \A s \in Sess :
        (/\ sessions[s].cmd \in {"PORT", "EPRT"}
         /\ sessions[s].ran = "secure"
         /\ sessions[s].out = <<"200">>)
            => sessions[s].dataCaller = "open"

\* the addresses FindIP accepts for the user
Accepted(user) == {ip \in IPs : FindIP(user, AddrString(ip, 0))}

\* C39: for every user of the registry and every string AddIP accepts,
\* AddIP of the string followed by RemoveIP of the same string leaves
\* FindIP accepting the addresses it accepted before.
C39_AddRemoveIPRestores ==
    \A name \in DOMAIN users : \A x \in IPArgs :
        ParsesIP(x)
            => Accepted(RemoveIP(AddIP(users[name], x), x)) = Accepted(users[name])

\* a call returned both keys and no error
Made(call) ==
    /\ call.keys.err = NoErr
    /\ call.keys.privateKeyFile \notin {NoKey}
    /\ call.keys.publicKeyFile \notin {NoKey}
    /\ call.keys.privateKeyFile.bits = call.bitSize

\* a call returned an error and no key
Refused(call) ==
    /\ call.keys.err # NoErr
    /\ call.keys.privateKeyFile = NoKey
    /\ call.keys.publicKeyFile = NoKey

\* C40: GeneratesRSAKeys returns both keys and no error for 2048, 3072 and
\* 4096 bits, GeneratesECDSAKeys for 224, 256, 384 and 521 bits; for every
\* other size each returns an error and no key.
C40_ExactlySupportedSizes ==
    /\ IF sftp.rsa.bitSize \in {2048, 3072, 4096}
       THEN Made(sftp.rsa) ELSE Refused(sftp.rsa)
    /\ IF sftp.ecdsa.bitSize \in {224, 256, 384, 521}
       THEN Made(sftp.ecdsa) ELSE Refused(sftp.ecdsa)

\* an RSA key of 4096 bits was made and an ECDSA key of that size refused
C40_Witness ==
    /\ sftp.rsa.bitSize = 4096 /\ Made(sftp.rsa)
    /\ sftp.ecdsa.bitSize = 4096 /\ Refused(sftp.ecdsa)

====
